---- MODULE Spec2Model ----
(***************************************************************************)
(* The voice-capture subsystem of src/components/ChatInput.tsx as a state  *)
(* machine.                                                                *)
(*                                                                         *)
(* One action is one turn of the browser's event loop: the handler that    *)
(* the event runs, every continuation that resumes on an already settled   *)
(* promise, and the React commit that follows (state update, new closures, *)
(* effect cleanups, effect bodies; repeated while an effect sets state).   *)
(* Handlers are operators from a record of the program state to a record   *)
(* of the program state; the record's fields carry the names of the        *)
(* component's state hooks and refs.                                       *)
(*                                                                         *)
(* React state is read through closures: a handler sees the values of the  *)
(* render that created it (fields rLS, rMP, rSSL during a turn), a long-   *)
(* lived callback sees the values of the render that created the           *)
(* startListening invocation it belongs to.                                *)
(***************************************************************************)
EXTENDS Integers, Sequences, FiniteSets, TLC

\* ------------------------------------------------------------------ bounds
MaxAttempts == 2        \* startListening invocations that pass the guards
MaxRecognizers == 2     \* SpeechRecognition instances told apart at a time
MaxRetry == 1           \* cap of wakeWordRetryCountRef in the full model
MaxStopTimers == 1      \* pending 500 ms timers that can start a recognizer
MaxLen == 4             \* characters of transcript in the full model
MaxRetryWake == 7       \* cap of wakeWordRetryCountRef in the wake-word model
MaxPrefix == 2          \* characters a transcript starts with before a phrase
MaxSamples == 2         \* samples of one audio buffer
MaxSlots == 3           \* startListening invocations in the visualization model
MaxRetries == 3         \* largest `retries` of generateContentWithRetry

Attempts == 1..MaxSlots
Recognizers == 1..MaxRecognizers

Min(a, b) == IF a < b THEN a ELSE b

\* ---------------------------------------------------------------- strings
\* A string is a sequence of one-character strings.
Lower(c) ==
    CASE c = "S" -> "s"
      [] c = "D" -> "d"
      [] c = "R" -> "r"
      [] c = "C" -> "c"
      [] c = "P" -> "p"
      [] OTHER -> c

LowerSeq(t) == [i \in 1..Len(t) |-> Lower(t[i])]

IsSpace(c) == c = " "

\* \w of the regular expressions; the alphabet holds letters, " " and ".".
IsWordChar(c) == c \notin {" ", "."}

RECURSIVE TrimStart(_)
TrimStart(t) ==
    IF t # <<>> /\ IsSpace(Head(t)) THEN TrimStart(Tail(t)) ELSE t

RECURSIVE TrimEnd(_)
TrimEnd(t) ==
    IF t # <<>> /\ IsSpace(t[Len(t)]) THEN TrimEnd(SubSeq(t, 1, Len(t) - 1)) ELSE t

\* String.prototype.trim
Trim(t) == TrimEnd(TrimStart(t))

Dot == <<".">>

SendPhrases == { <<"s","e","n","d">>, <<"d","o","n","e">> }

StopPhrases ==
    { <<"s","t","o","p"," ","l","i","s","t","e","n","i","n","g">>,
      <<"s","t","o","p"," ","r","e","c","o","r","d","i","n","g">> }

ClearPhrases ==
    { <<"c","l","e","a","r"," ","i","n","p","u","t">>,
      <<"r","e","m","o","v","e">> }

\* the same without the optional period: /\b(p1|p2)$/i
MatchStartsNoPeriod(t, phrases) ==
    { m \in 1..Len(t) :
        \E p \in phrases :
            /\ m + Len(p) - 1 = Len(t)
            /\ SubSeq(LowerSeq(t), m, Len(t)) = p
            /\ (m = 1 \/ ~IsWordChar(t[m - 1])) }

\* The places where /\b(p1|p2)\.?$/i matches in t: the phrase, an optional
\* period, the end of the string; a word boundary before the phrase.
MatchStarts(t, phrases) ==
    { m \in 1..Len(t) :
        \E p \in phrases, tail \in {<<>>, Dot} :
            /\ m + Len(p) + Len(tail) - 1 = Len(t)
            /\ SubSeq(LowerSeq(t), m, Len(t)) = p \o tail
            /\ (m = 1 \/ ~IsWordChar(t[m - 1])) }

\* RegExp.prototype.test
RegexTest(t, phrases) == MatchStarts(t, phrases) # {}

\* String.prototype.replace(regex, ''): the leftmost match is removed; it
\* reaches to the end of the string.
RegexStrip(t, phrases) ==
    IF MatchStarts(t, phrases) = {} THEN t
    ELSE LET m == CHOOSE x \in MatchStarts(t, phrases) :
                      \A y \in MatchStarts(t, phrases) : x <= y
         IN SubSeq(t, 1, m - 1)

\* ----------------------------------------------------- wake-word back-off
RECURSIVE Pow2(_)
Pow2(n) == IF n = 0 THEN 1 ELSE 2 * Pow2(n - 1)

\* the delay without Math.min(..., 30000)
WakeDelayUncapped(n) == IF n > 0 THEN 500 * Pow2(n) ELSE 300

\* recognition.onend: the delay before the recognizer is started again
WakeDelay(n) == IF n > 0 THEN Min(500 * Pow2(n), 30000) ELSE 300

\* ------------------------------------------------------------ PCM encoding
\* A sample of the Float32Array is the rational num / den, den > 0.
Sample(num, den) == [num |-> num, den |-> den]

\* the samples of the audio buffers: 0, the full scale and beyond it on both
\* sides, values next to the full scale, and values too small for one step
Samples ==
    { Sample(0, 1), Sample(1, 1), Sample(-1, 1), Sample(3, 2), Sample(-3, 2),
      Sample(2, 1), Sample(-2, 1), Sample(1, 2), Sample(-1, 2),
      Sample(1, 65536), Sample(-1, 65536), Sample(65535, 65536),
      Sample(-65535, 65536), Sample(-32769, 32768) }

\* the sample as it is
Unclipped(x) == x

\* Math.max(-1, Math.min(1, data[i]))
Clip(x) ==
    IF x.num > x.den THEN Sample(1, 1)
    ELSE IF x.num < 0 - x.den THEN Sample(-1, 1)
    ELSE x

\* the integer part of n / d (the fraction is dropped, towards zero)
Truncate(n, d) == IF n >= 0 THEN n \div d ELSE 0 - ((0 - n) \div d)

\* the store into an Int16Array element: the integer part, modulo 2^16,
\* as a signed 16-bit value
ToInt16(n, d) == ((Truncate(n, d) + 32768) % 65536) - 32768

\* s < 0 ? s * 0x8000 : s * 0x7FFF, stored into int16[i]
Pcm16(s) ==
    IF s.num < 0 THEN ToInt16(s.num * 32768, s.den)
    ELSE ToInt16(s.num * 32767, s.den)

\* createBlob: the 16-bit values of the buffer (the blob carries their bytes
\* as base64 text), with the samples they come from
CreateBlob(data) ==
    [input |-> data, int16 |-> [i \in 1..Len(data) |-> Pcm16(Clip(data[i]))]]

\* -------------------------------------------------------------- messages
MsgApiKey ==
    "The API key is missing or invalid. Please ensure it's correctly configured in your environment to use voice features."
MsgTimeout == "Connection timed out. Please check your network."
MsgConnection == "A connection error occurred. Please try again."
MsgMicrophone == "Could not access microphone or start audio. Please check permissions."

ListeningStates ==
    {"idle", "requesting_permission", "initializing_audio", "connecting",
     "listening", "error"}

VARIABLES
    \* React state of the last render
    inputValue, listeningState, micPermission, shouldStartListening, audioLevel,
    \* refs
    sessionPromiseRef, audioContextRef, analyserRef, scriptProcessorRef,
    mediaStreamRef, currentTranscriptionRef, speechRecognitionRef,
    connectionTimeoutRef, animationFrameRef, wakeWordRetryCountRef,
    listeningStateRef,
    \* the listeningState that the startWakeWordListener inside the current
    \* stopListening closure captured (stopListening is re-created only when
    \* micPermission changes)
    stopListeningScope,
    \* the environment
    apiKey,          \* process.env.API_KEY is set
    attempts,        \* startListening invocations: where each is suspended
    streams,         \* the MediaStream each invocation got
    contexts,        \* the AudioContext each invocation created
    sessions,        \* the live session each invocation connected
    connTimers,      \* the 10 s timer of each invocation is pending
    stops,           \* stopListening invocations suspended at an await
    stopTimers,      \* pending 500 ms timers of finished stopListening calls
    recognizers,     \* SpeechRecognition instances
    pendingFrames,   \* requestAnimationFrame callbacks not yet run
    \* what the last turn passed to the props
    onSendCalls, onErrorCalls,
    \* the branch of onmessage's command detection that the last turn took
    voiceCommand,
    \* the blobs the last turn passed to session.sendRealtimeInput
    realtimeInput,
    \* the start request of the last turn: "wake" (onresult heard the wake
    \* phrase), "manual" (handleMicClick called startListening) or "none"
    startRequest,
    \* the close() calls of the last turn: on which AudioContext, on which
    \* session
    closeCalls,
    \* the component is mounted (React renders it and runs its effects)
    mounted,
    \* one invocation of generateContentWithRetry (geminiService.ts)
    retry

vars ==
    <<inputValue, listeningState, micPermission, shouldStartListening, audioLevel,
      sessionPromiseRef, audioContextRef, analyserRef, scriptProcessorRef,
      mediaStreamRef, currentTranscriptionRef, speechRecognitionRef,
      connectionTimeoutRef, animationFrameRef, wakeWordRetryCountRef,
      listeningStateRef, stopListeningScope, apiKey, attempts, streams,
      contexts, sessions, connTimers, stops, stopTimers, recognizers,
      pendingFrames, onSendCalls, onErrorCalls, voiceCommand, realtimeInput,
      startRequest, closeCalls, mounted, retry>>

\* The program state at the start of a turn. rLS, rMP and rSSL are the
\* values of the last render, which the closures of that render read while
\* the state fields take the turn's setState calls.
Cur ==
    [inputValue |-> inputValue, listeningState |-> listeningState,
     micPermission |-> micPermission,
     shouldStartListening |-> shouldStartListening, audioLevel |-> audioLevel,
     sessionPromiseRef |-> sessionPromiseRef, audioContextRef |-> audioContextRef,
     analyserRef |-> analyserRef, scriptProcessorRef |-> scriptProcessorRef,
     mediaStreamRef |-> mediaStreamRef,
     currentTranscriptionRef |-> currentTranscriptionRef,
     speechRecognitionRef |-> speechRecognitionRef,
     connectionTimeoutRef |-> connectionTimeoutRef,
     animationFrameRef |-> animationFrameRef,
     wakeWordRetryCountRef |-> wakeWordRetryCountRef,
     listeningStateRef |-> listeningStateRef,
     stopListeningScope |-> stopListeningScope, apiKey |-> apiKey,
     attempts |-> attempts, streams |-> streams, contexts |-> contexts,
     sessions |-> sessions, connTimers |-> connTimers, stops |-> stops,
     stopTimers |-> stopTimers, recognizers |-> recognizers,
     pendingFrames |-> pendingFrames,
     onSendCalls |-> <<>>, onErrorCalls |-> <<>>, voiceCommand |-> "none",
     realtimeInput |-> <<>>, startRequest |-> "none",
     closeCalls |-> <<>>,
     rLS |-> listeningState, rMP |-> micPermission,
     rSSL |-> shouldStartListening, mounted |-> mounted]

\* The stopListening closure of the current render: the micPermission it
\* captured and the listeningState its startWakeWordListener captured.
Closure(s) == [mic |-> s.rMP, st |-> s.stopListeningScope]

\* ------------------------------------------------------ wake-word listener
\* An instance that is not in use: never created, or aborted with its
\* handlers detached and no timer left that refers to it.
FreeRecognizer ==
    [status |-> "unused", attached |-> FALSE, timer |-> FALSE, delay |-> 0]

\* An aborted instance whose restart timer is still pending.
StaleRecognizer ==
    [status |-> "aborted", attached |-> FALSE, timer |-> TRUE, delay |-> 0]

\* Instances are told apart only by identity
\* (speechRecognitionRef.current === recognition): the registered instance
\* is kept at index 1, an aborted instance whose restart timer is pending at
\* an index above 1 (the timer is forgotten when no index is left; it does
\* nothing when it fires).
ParkStale(recs) ==
    IF \E r \in Recognizers : r # 1 /\ ~recs[r].timer
    THEN [recs EXCEPT ![1] = FreeRecognizer,
                      ![CHOOSE r \in Recognizers :
                            /\ r # 1 /\ ~recs[r].timer
                            /\ \A q \in Recognizers :
                                   (q # 1 /\ ~recs[q].timer) => r <= q]
                          = StaleRecognizer]
    ELSE [recs EXCEPT ![1] = FreeRecognizer]

\* stopWakeWordListener: the registration is nulled, the handlers are
\* detached, the recognizer is aborted. A restart timer of the instance
\* stays pending.
StopWakeWordListener(s) ==
    IF s.speechRecognitionRef = 0 THEN s
    ELSE [s EXCEPT !.speechRecognitionRef = 0,
                   !.recognizers =
                       IF @[s.speechRecognitionRef].timer THEN ParkStale(@)
                       ELSE [@ EXCEPT ![s.speechRecognitionRef] = FreeRecognizer]]

\* new SpeechRecognitionAPI(): called only while no instance is registered
NewRecognizer(s) == 1

\* startWakeWordListener of the render whose listeningState is capLS and
\* whose micPermission is capMP
StartWakeWordListener(s, capLS, capMP) ==
    IF capLS # "idle" \/ capMP # "granted" \/ s.speechRecognitionRef # 0 THEN s
    ELSE LET r == NewRecognizer(s)
         IN [s EXCEPT !.recognizers[r] =
                          [status |-> "running", attached |-> TRUE,
                           timer |-> FALSE, delay |-> 0],
                      !.speechRecognitionRef = r]

\* --------------------------------------------------------- visualization
\* updateAudioLevel; average is the mean of the analyser's byte data
UpdateAudioLevel(s, average) ==
    IF s.listeningStateRef = "listening" /\ s.analyserRef # 0
    THEN [s EXCEPT !.audioLevel = Min(100, average * 2),
                   !.animationFrameRef = "live",
                   !.pendingFrames = @ + 1]
    ELSE [s EXCEPT !.audioLevel = 0]

\* ------------------------------------------------------------ stopListening
\* setTimeout(..., 500) at the end of stopListening. The callback starts a
\* recognizer only if the closure's micPermission is granted and the
\* listeningState of its startWakeWordListener is idle; a timer of any other
\* closure does nothing when it fires and is not kept.
ScheduleRestart(s, cl) ==
    IF cl.mic = "granted" /\ cl.st = "idle"
    THEN [s EXCEPT !.stopTimers = Min(MaxStopTimers, @ + 1)]
    ELSE s

\* a call of close() on the AudioContext or on the session of invocation a
CloseCall(kind, a) == [kind |-> kind, of |-> a]

\* stopListening from `if (sessionPromiseRef.current)` on
StopFromSession(s, cl) ==
    IF s.sessionPromiseRef = 0 THEN ScheduleRestart(s, cl)
    ELSE LET p == s.sessionPromiseRef
         IN IF s.sessions[p] \in {"connecting", "failing", "failed"}
            THEN \* the promise is pending: the invocation waits for it
                 [s EXCEPT !.stops = @ \cup
                     {[pc |-> "session", target |-> p, mic |-> cl.mic, st |-> cl.st]}]
            ELSE \* session.close()
                 ScheduleRestart(
                     [s EXCEPT !.sessions[p] = IF @ = "open" THEN "closing" ELSE @,
                               !.closeCalls = Append(@, CloseCall("session", p)),
                               !.sessionPromiseRef = 0], cl)

\* stopListening from `if (audioContextRef.current)` on
StopFromContext(s, cl) ==
    IF s.audioContextRef = 0 THEN StopFromSession(s, cl)
    ELSE LET c == s.audioContextRef
         IN IF s.contexts[c] \in {"running", "suspended"}
            THEN \* await close()
                 [s EXCEPT !.contexts[c] = "closing",
                           !.closeCalls = Append(@, CloseCall("context", c)),
                           !.stops = @ \cup
                     {[pc |-> "close", target |-> c, mic |-> cl.mic, st |-> cl.st]}]
            ELSE \* the state is closed and close() is not called; or an
                 \* earlier close() has not resolved, the state is not yet
                 \* closed, close() is called again, rejects, and the
                 \* rejection is caught
                 StopFromSession(
                     [s EXCEPT !.audioContextRef = 0,
                               !.closeCalls =
                                   IF s.contexts[c] = "closing"
                                   THEN Append(@, CloseCall("context", c))
                                   ELSE @],
                     cl)

ClearConnectionTimeout(s) ==
    IF s.connectionTimeoutRef = 0 THEN s
    ELSE [s EXCEPT !.connTimers[s.connectionTimeoutRef] = FALSE,
                   !.connectionTimeoutRef = 0]

CancelFrame(s) ==
    IF s.animationFrameRef = "null" THEN s
    ELSE [s EXCEPT !.pendingFrames =
                       IF s.animationFrameRef = "live" THEN @ - 1 ELSE @,
                   !.animationFrameRef = "null"]

\* the tracks are stopped and the stream is kept in the ref
StopTracksKeepRef(s) ==
    IF s.mediaStreamRef = 0 THEN s
    ELSE [s EXCEPT !.streams[s.mediaStreamRef] = "stopped"]

StopTracks(s) ==
    IF s.mediaStreamRef = 0 THEN s
    ELSE [s EXCEPT !.streams[s.mediaStreamRef] = "stopped",
                   !.mediaStreamRef = 0]

\* stopListening of the closure cl, up to its first pending await
StopListening(s, cl) ==
    StopFromContext(
        [StopTracks(
            [CancelFrame(ClearConnectionTimeout(s)) EXCEPT
                !.listeningState = "idle", !.audioLevel = 0,
                !.currentTranscriptionRef = <<>>])
         EXCEPT !.scriptProcessorRef = 0, !.analyserRef = 0],
        cl)

\* ----------------------------------------------------------- startListening
FreeAttempt ==
    [pc |-> "free", mic |-> "prompt", st |-> "idle", cancelled |-> FALSE]

\* an invocation that the model leaves out
SpareAttempt ==
    [pc |-> "spare", mic |-> "prompt", st |-> "idle", cancelled |-> FALSE]

\* before any call of startListening, n invocations are left to tell apart
NoAttempts(n) ==
    [a \in Attempts |-> IF a <= n THEN FreeAttempt ELSE SpareAttempt]

HasFreeAttempt(s) == \E a \in Attempts : s.attempts[a].pc = "free"

FirstFreeAttempt(s) ==
    CHOOSE x \in Attempts :
        /\ s.attempts[x].pc = "free"
        /\ \A y \in Attempts : s.attempts[y].pc = "free" => x <= y

\* startListening without its first line (the guard on listeningState), as
\* long as an invocation is left to tell apart
StartListeningUnguarded(s, capLS, cl) ==
    IF capLS # "idle" /\ capLS # "error" /\ ~HasFreeAttempt(s) THEN s
    ELSE IF ~s.apiKey
    THEN [s EXCEPT !.onErrorCalls = Append(@, MsgApiKey),
                   !.listeningState = "error"]
    ELSE [StopWakeWordListener(s) EXCEPT
             !.attempts[FirstFreeAttempt(s)] =
                 [pc |-> "settle", mic |-> cl.mic, st |-> cl.st,
                  cancelled |-> FALSE]]

\* startListening without its call of stopWakeWordListener
StartListeningKeepsListener(s, capLS, cl) ==
    IF capLS # "idle" /\ capLS # "error" THEN s
    ELSE IF ~s.apiKey
    THEN [s EXCEPT !.onErrorCalls = Append(@, MsgApiKey),
                   !.listeningState = "error"]
    ELSE [s EXCEPT
             !.attempts[FirstFreeAttempt(s)] =
                 [pc |-> "settle", mic |-> cl.mic, st |-> cl.st,
                  cancelled |-> FALSE]]

\* startListening of the render whose listeningState is capLS, up to the
\* settle wait
StartListening(s, capLS, cl) ==
    IF capLS # "idle" /\ capLS # "error" THEN s
    ELSE IF ~s.apiKey
    THEN [s EXCEPT !.onErrorCalls = Append(@, MsgApiKey),
                   !.listeningState = "error"]
    ELSE [StopWakeWordListener(s) EXCEPT
             !.attempts[FirstFreeAttempt(s)] =
                 [pc |-> "settle", mic |-> cl.mic, st |-> cl.st,
                  cancelled |-> FALSE]]

\* the closure of stopListening that invocation a of startListening holds
ClosureOf(s, a) == [mic |-> s.attempts[a].mic, st |-> s.attempts[a].st]

\* startListening from `currentTranscriptionRef.current = ''` to its end
Connect(s, a) ==
    [s EXCEPT !.currentTranscriptionRef = <<>>,
              !.listeningState = "connecting",
              !.connTimers[a] = TRUE,
              !.connectionTimeoutRef = a,
              !.sessionPromiseRef = a,
              !.sessions[a] = "connecting",
              !.attempts[a].pc = "done"]

\* the catch block of startListening
Catch(s, a, denied) ==
    StopListening(
        [s EXCEPT !.listeningState = "error",
                  !.micPermission = IF denied THEN "denied" ELSE @,
                  !.onErrorCalls = IF denied THEN @ ELSE Append(@, MsgMicrophone),
                  !.attempts[a].pc = "done",
                  !.attempts[a].cancelled = FALSE],
        ClosureOf(s, a))

\* --------------------------------------------------------------- the commit
\* The cleanup of the last effect ("Cleanup on unmount"), which React also
\* runs when stopListening is re-created: it clears the timers without
\* nulling the refs, then calls stopListening (the closure cl of the render
\* that set the effect up) and stopWakeWordListener.
CleanupTimers(s) ==
    [s EXCEPT !.connTimers =
                  IF s.connectionTimeoutRef = 0 THEN @
                  ELSE [@ EXCEPT ![s.connectionTimeoutRef] = FALSE],
              !.pendingFrames = IF s.animationFrameRef = "live" THEN @ - 1 ELSE @,
              !.animationFrameRef = IF @ = "live" THEN "stale" ELSE @]

UnmountCleanup(s, cl) ==
    StopWakeWordListener(StopListening(CleanupTimers(s), cl))

\* the effect that manages the wake-word listener: its cleanup, its body
WakeEffectCleanup(s) == StopWakeWordListener(s)

WakeEffect(s) ==
    IF s.rMP = "granted" /\ s.rLS = "idle"
    THEN StartWakeWordListener([s EXCEPT !.wakeWordRetryCountRef = 0],
                               s.rLS, s.rMP)
    ELSE StopWakeWordListener(s)

\* the effect on shouldStartListening
ShouldStartEffect(s) ==
    IF s.rSSL
    THEN [StartListening(s, s.rLS, Closure(s)) EXCEPT
             !.shouldStartListening = FALSE]
    ELSE s

\* the effects of one commit; chLS and chMP: listeningState and
\* micPermission changed; old: the stopListening of the previous render
Cleanups(s, chLS, chMP, old) ==
    IF chMP THEN UnmountCleanup(WakeEffectCleanup(s), old)
    ELSE IF chLS THEN WakeEffectCleanup(s)
    ELSE s

Effects(s, chLS, chMP) ==
    IF chLS \/ chMP
    THEN ShouldStartEffect(WakeEffect(
             [s EXCEPT !.listeningStateRef = IF chLS THEN s.rLS ELSE @]))
    ELSE ShouldStartEffect(s)

\* the render: the state updates of the turn become the values closures see;
\* stopListening is re-created when micPermission changed
Rendered(s) ==
    [s EXCEPT !.rLS = s.listeningState, !.rMP = s.micPermission,
              !.rSSL = s.shouldStartListening,
              !.stopListeningScope =
                  IF s.micPermission # s.rMP THEN s.listeningState ELSE @]

\* React's commit of the turn's state updates. Effects whose dependencies
\* changed run their cleanups (with the closures of the previous render),
\* then their bodies (with the closures of this render), in the order the
\* component declares them. A state update made by an effect is committed
\* the same way.
RECURSIVE Render(_)
Render(s) ==
    IF \/ s.listeningState # s.rLS
       \/ s.micPermission # s.rMP
       \/ s.shouldStartListening # s.rSSL
    THEN Render(Effects(
             Cleanups(Rendered(s), s.listeningState # s.rLS,
                      s.micPermission # s.rMP, Closure(s)),
             s.listeningState # s.rLS, s.micPermission # s.rMP))
    ELSE s

\* the new values of the variables
Commit(s) ==
    /\ inputValue' = s.inputValue
    /\ listeningState' = s.listeningState
    /\ micPermission' = s.micPermission
    /\ shouldStartListening' = s.shouldStartListening
    /\ audioLevel' = s.audioLevel
    /\ sessionPromiseRef' = s.sessionPromiseRef
    /\ audioContextRef' = s.audioContextRef
    /\ analyserRef' = s.analyserRef
    /\ scriptProcessorRef' = s.scriptProcessorRef
    /\ mediaStreamRef' = s.mediaStreamRef
    /\ currentTranscriptionRef' = s.currentTranscriptionRef
    /\ speechRecognitionRef' = s.speechRecognitionRef
    /\ connectionTimeoutRef' = s.connectionTimeoutRef
    /\ animationFrameRef' = s.animationFrameRef
    /\ wakeWordRetryCountRef' = s.wakeWordRetryCountRef
    /\ listeningStateRef' = s.listeningStateRef
    /\ stopListeningScope' = s.stopListeningScope
    /\ apiKey' = s.apiKey
    /\ attempts' = s.attempts
    /\ streams' = s.streams
    /\ contexts' = s.contexts
    /\ sessions' = s.sessions
    /\ connTimers' = s.connTimers
    /\ stops' = s.stops
    /\ stopTimers' = s.stopTimers
    /\ recognizers' = s.recognizers
    /\ pendingFrames' = s.pendingFrames
    /\ onSendCalls' = s.onSendCalls
    /\ onErrorCalls' = s.onErrorCalls
    /\ voiceCommand' = s.voiceCommand
    /\ realtimeInput' = s.realtimeInput
    /\ startRequest' = s.startRequest
    /\ closeCalls' = s.closeCalls
    /\ mounted' = s.mounted
    /\ retry' = retry

\* After the unmount React renders nothing and runs no effect: the setState
\* calls of a turn are dropped.
Unrendered(s) ==
    [s EXCEPT !.listeningState = s.rLS, !.micPermission = s.rMP,
              !.shouldStartListening = s.rSSL,
              !.inputValue = inputValue, !.audioLevel = audioLevel]

\* The end of a turn: the commit, and the new values of the variables.
Turn(s) == Commit(IF s.mounted THEN Render(s) ELSE Unrendered(s))

\* ----------------------------------------------------------------- Init
\* The component after its first render and its first effects.
InitChatInput ==
    /\ inputValue = <<>>
    /\ listeningState = "idle"
    /\ micPermission = "prompt"
    /\ shouldStartListening = FALSE
    /\ audioLevel = 0
    /\ sessionPromiseRef = 0
    /\ audioContextRef = 0
    /\ analyserRef = 0
    /\ scriptProcessorRef = 0
    /\ mediaStreamRef = 0
    /\ currentTranscriptionRef = <<>>
    /\ speechRecognitionRef = 0
    /\ connectionTimeoutRef = 0
    /\ animationFrameRef = "null"
    /\ wakeWordRetryCountRef = 0
    /\ listeningStateRef = "idle"
    /\ stopListeningScope = "idle"
    /\ apiKey \in BOOLEAN
    /\ attempts = NoAttempts(MaxAttempts)
    /\ streams = [a \in Attempts |-> "none"]
    /\ contexts = [a \in Attempts |-> "none"]
    /\ sessions = [a \in Attempts |-> "none"]
    /\ connTimers = [a \in Attempts |-> FALSE]
    /\ stops = {}
    /\ stopTimers = 0
    /\ recognizers = [r \in Recognizers |-> FreeRecognizer]
    /\ pendingFrames = 0
    /\ onSendCalls = <<>>
    /\ onErrorCalls = <<>>
    /\ voiceCommand = "none"
    /\ realtimeInput = <<>>
    /\ startRequest = "none"
    /\ closeCalls = <<>>
    /\ mounted = TRUE

\* generateContentWithRetry has not been called
NotCalled ==
    [pc |-> "idle", retries |-> 0, delay |-> 0, i |-> 0, calls |-> 0,
     waits |-> <<>>, errors |-> <<>>]

Init == InitChatInput /\ retry = NotCalled

\* ------------------------------------------------------------- the user
ActiveStates ==
    {"listening", "connecting", "initializing_audio", "requesting_permission"}

\* An invocation of startListening is in flight until its session opens or
\* fails, or its catch block runs.
InFlight(s, a) ==
    \/ s.attempts[a].pc \in {"settle", "getUserMedia", "resume"}
    \/ s.sessions[a] = "connecting"

\* The user asks for a stop: every invocation in flight is remembered as one
\* the user cancelled (attempts[a].cancelled records it until the invocation
\* is no longer in flight; the code keeps no such record).
ManualStopRequested(s) ==
    [s EXCEPT !.attempts =
        [a \in Attempts |-> [@[a] EXCEPT !.cancelled = @ \/ InFlight(s, a)]]]

\* handleMicClick; the button is disabled while micPermission is denied
HandleMicClick(s) ==
    IF s.rLS \in ActiveStates
    THEN StopListening(ManualStopRequested(s), Closure(s))
    ELSE StartListening([s EXCEPT !.startRequest = "manual"], s.rLS, Closure(s))

MicClick ==
    /\ mounted
    /\ micPermission # "denied"
    /\ (listeningState \notin ActiveStates /\ apiKey) => HasFreeAttempt(Cur)
    /\ Turn(HandleMicClick(Cur))

\* the permission query resolves with granted, or its onchange reports it
PermissionGranted ==
    /\ micPermission # "granted"
    /\ Turn([Cur EXCEPT !.micPermission = "granted"])

\* ------------------------------------------- startListening, after awaits
\* the 300 ms wait is over: requesting_permission, getUserMedia is called
SettleDone(a) ==
    /\ attempts[a].pc = "settle"
    /\ Turn([Cur EXCEPT !.listeningState = "requesting_permission",
                        !.attempts[a].pc = "getUserMedia"])

\* startListening from the resolution of getUserMedia to the await of
\* resume() (a suspended context) or to its end
OnStream(s, a, suspended) ==
    IF suspended THEN [s EXCEPT !.attempts[a].pc = "resume"] ELSE Connect(s, a)

\* getUserMedia resolves; the new AudioContext is suspended or running
GetUserMediaResolved(a, suspended) ==
    /\ attempts[a].pc = "getUserMedia"
    /\ Turn(OnStream(
           [Cur EXCEPT !.mediaStreamRef = a,
                       !.streams[a] = "live",
                       !.micPermission = "granted",
                       !.listeningState = "initializing_audio",
                       !.audioContextRef = a,
                       !.contexts[a] = IF suspended THEN "suspended" ELSE "running"],
           a, suspended))

\* getUserMedia rejects, with NotAllowedError / PermissionDeniedError or not
GetUserMediaRejected(a, denied) ==
    /\ attempts[a].pc = "getUserMedia"
    /\ Turn(Catch(Cur, a, denied))

\* audioContext.resume() settles: it rejects on a context that was closed
OnResume(s, a) ==
    IF s.contexts[a] = "suspended"
    THEN Connect([s EXCEPT !.contexts[a] = "running"], a)
    ELSE Catch(s, a, FALSE)

ResumeSettled(a) ==
    /\ attempts[a].pc = "resume"
    /\ Turn(OnResume(Cur, a))

\* the callback without its test of listeningStateRef
OnConnectionTimeoutAnyState(s, a) ==
    StopListening([s EXCEPT !.onErrorCalls = Append(@, MsgTimeout)],
                  ClosureOf(s, a))

\* the connection timeout callback
OnConnectionTimeout(s, a) ==
    IF s.listeningStateRef \in {"connecting", "initializing_audio"}
    THEN StopListening([s EXCEPT !.onErrorCalls = Append(@, MsgTimeout)],
                       ClosureOf(s, a))
    ELSE s

ConnectionTimeout(a) ==
    /\ connTimers[a]
    /\ Turn(OnConnectionTimeout([Cur EXCEPT !.connTimers[a] = FALSE], a))

\* ------------------------------------------------------ the live session
\* the stopListening invocations that wait for the session promise of a
\* go on: session.close(), the ref is nulled, the restart timer is set
SessionWaiters(s, a) == {w \in s.stops : w.pc = "session" /\ w.target = a}

ResumeSessionWaiter(s, a, w) ==
    ScheduleRestart(
        [s EXCEPT !.stops = @ \ {w},
                  !.sessions[a] = IF @ = "open" THEN "closing" ELSE @,
                  !.closeCalls = Append(@, CloseCall("session", a)),
                  !.sessionPromiseRef = 0],
        [mic |-> w.mic, st |-> w.st])

RECURSIVE ResumeSessionWaiters(_, _)
ResumeSessionWaiters(s, a) ==
    IF SessionWaiters(s, a) = {} THEN s
    ELSE ResumeSessionWaiters(
             ResumeSessionWaiter(s, a, CHOOSE w \in SessionWaiters(s, a) : TRUE), a)

\* onopen after `setListeningState('listening')`: the audio graph
WireAudioGraph(s, average) ==
    IF s.audioContextRef = 0 \/ s.mediaStreamRef = 0 THEN s
    ELSE UpdateAudioLevel(
             [s EXCEPT !.analyserRef = s.audioContextRef,
                       !.scriptProcessorRef = s.audioContextRef],
             average)

\* the onopen callback
OnOpen(s, average) ==
    WireAudioGraph(
        [ClearConnectionTimeout(s) EXCEPT !.listeningState = "listening"],
        average)

\* onopen, then the promise of ai.live.connect resolves
SessionOpen(a, average) ==
    /\ sessions[a] = "connecting"
    /\ Turn(ResumeSessionWaiters(
           OnOpen([Cur EXCEPT !.sessions[a] = "open",
                              !.attempts[a].cancelled = FALSE], average), a))

\* the send branch without `.trim()` and without `if (taskText)`
OnTurnCompleteUntrimmed(s, cl, fullTranscript) ==
    IF RegexTest(fullTranscript, SendPhrases)
    THEN StopListening(
             [s EXCEPT !.onSendCalls =
                           Append(@, RegexStrip(fullTranscript, SendPhrases)),
                       !.inputValue = <<>>,
                       !.voiceCommand = "send"],
             cl)
    ELSE IF RegexTest(fullTranscript, StopPhrases)
    THEN StopListening(
             [s EXCEPT !.inputValue = Trim(RegexStrip(fullTranscript, StopPhrases)),
                       !.voiceCommand = "stop"],
             cl)
    ELSE IF RegexTest(fullTranscript, ClearPhrases)
    THEN [s EXCEPT !.inputValue = <<>>, !.currentTranscriptionRef = <<>>,
                   !.voiceCommand = "clear"]
    ELSE s

\* the clear branch without `currentTranscriptionRef.current = ''`
OnTurnCompleteKeepsBuffer(s, cl, fullTranscript) ==
    IF RegexTest(fullTranscript, SendPhrases)
    THEN StopListening(
             [s EXCEPT !.onSendCalls =
                           IF Trim(RegexStrip(fullTranscript, SendPhrases)) # <<>>
                           THEN Append(@, Trim(RegexStrip(fullTranscript, SendPhrases)))
                           ELSE @,
                       !.inputValue = <<>>,
                       !.voiceCommand = "send"],
             cl)
    ELSE IF RegexTest(fullTranscript, StopPhrases)
    THEN StopListening(
             [s EXCEPT !.inputValue = Trim(RegexStrip(fullTranscript, StopPhrases)),
                       !.voiceCommand = "stop"],
             cl)
    ELSE IF RegexTest(fullTranscript, ClearPhrases)
    THEN [s EXCEPT !.inputValue = <<>>, !.voiceCommand = "clear"]
    ELSE s

\* a turnComplete branch that closes the turn whether or not a command was
\* spoken: without a command the buffer is cleared as well
OnTurnCompleteClosesTurn(s, cl, fullTranscript) ==
    IF RegexTest(fullTranscript, SendPhrases)
    THEN StopListening(
             [s EXCEPT !.onSendCalls =
                           IF Trim(RegexStrip(fullTranscript, SendPhrases)) # <<>>
                           THEN Append(@, Trim(RegexStrip(fullTranscript, SendPhrases)))
                           ELSE @,
                       !.inputValue = <<>>,
                       !.voiceCommand = "send"],
             cl)
    ELSE IF RegexTest(fullTranscript, StopPhrases)
    THEN StopListening(
             [s EXCEPT !.inputValue = Trim(RegexStrip(fullTranscript, StopPhrases)),
                       !.voiceCommand = "stop"],
             cl)
    ELSE IF RegexTest(fullTranscript, ClearPhrases)
    THEN [s EXCEPT !.inputValue = <<>>, !.currentTranscriptionRef = <<>>,
                   !.voiceCommand = "clear"]
    ELSE [s EXCEPT !.currentTranscriptionRef = <<>>,
                   !.voiceCommand = "no command"]

\* onmessage at turnComplete; fullTranscript is the trimmed transcript.
\* voiceCommand records the branch that ran.
OnTurnComplete(s, cl, fullTranscript) ==
    IF RegexTest(fullTranscript, SendPhrases)
    THEN StopListening(
             [s EXCEPT !.onSendCalls =
                           IF Trim(RegexStrip(fullTranscript, SendPhrases)) # <<>>
                           THEN Append(@, Trim(RegexStrip(fullTranscript, SendPhrases)))
                           ELSE @,
                       !.inputValue = <<>>,
                       !.voiceCommand = "send"],
             cl)
    ELSE IF RegexTest(fullTranscript, StopPhrases)
    THEN StopListening(
             [s EXCEPT !.inputValue = Trim(RegexStrip(fullTranscript, StopPhrases)),
                       !.voiceCommand = "stop"],
             cl)
    ELSE IF RegexTest(fullTranscript, ClearPhrases)
    THEN [s EXCEPT !.inputValue = <<>>, !.currentTranscriptionRef = <<>>,
                   !.voiceCommand = "clear"]
    ELSE [s EXCEPT !.voiceCommand = "no command"]

\* onmessage: the transcript text, if the message has any
OnTranscription(s, hasText, text) ==
    IF hasText
    THEN [s EXCEPT !.currentTranscriptionRef = @ \o text,
                   !.inputValue = s.currentTranscriptionRef \o text]
    ELSE s

\* the command detection without `if (message.serverContent?.turnComplete)`
OnMessageHandlerAnyMessage(s, a, turnComplete) ==
    OnTurnComplete(s, ClosureOf(s, a), Trim(s.currentTranscriptionRef))

\* the onmessage callback of the session of invocation a
OnMessageHandler(s, a, turnComplete) ==
    IF turnComplete
    THEN OnTurnComplete(s, ClosureOf(s, a), Trim(s.currentTranscriptionRef))
    ELSE s

\* onmessage: a server message with or without inputTranscription text,
\* with or without turnComplete
OnMessage(a, hasText, text, turnComplete, maxLen) ==
    /\ sessions[a] = "open"
    /\ hasText => Len(currentTranscriptionRef) + Len(text) <= maxLen
    /\ Turn(OnMessageHandler(OnTranscription(Cur, hasText, text), a, turnComplete))

\* onerror: the connection fails before or after it opened. The promise of
\* a connection that never opened stays pending.
OnError(s, a) ==
    StopListening(
        [s EXCEPT !.onErrorCalls = Append(@, MsgConnection),
                  !.listeningState = "error"],
        ClosureOf(s, a))

SessionError(a) ==
    /\ sessions[a] \in {"connecting", "open"}
    /\ Turn(OnError(
           [Cur EXCEPT !.sessions[a] =
                           IF @ = "connecting" THEN "failing" ELSE "closing",
                       !.attempts[a].cancelled = FALSE],
           a))

\* an onclose that never calls stopListening
OnCloseNoStop(s, a) == s

\* an onclose that calls stopListening whatever listeningStateRef holds
OnCloseAnyState(s, a) == StopListening(s, ClosureOf(s, a))

\* onclose: after session.close(), after an error, or closed by the server
OnClose(s, a) ==
    IF s.listeningStateRef \in {"listening", "connecting"}
    THEN StopListening(s, ClosureOf(s, a))
    ELSE s

SessionClose(a) ==
    /\ sessions[a] \in {"open", "closing", "failing"}
    /\ Turn(OnClose(
           [Cur EXCEPT !.sessions[a] = IF @ = "failing" THEN "failed" ELSE "closed"],
           a))

\* audioContext.close() resolves: the stopListening that awaits it goes on
ResumeCloseWaiter(s, c) ==
    IF \E w \in s.stops : w.pc = "close" /\ w.target = c
    THEN StopFromSession(
             [s EXCEPT !.stops = {w \in @ : ~(w.pc = "close" /\ w.target = c)},
                       !.audioContextRef = 0],
             CHOOSE cl \in [mic : {"prompt", "granted", "denied"},
                            st : ListeningStates] :
                 [pc |-> "close", target |-> c, mic |-> cl.mic, st |-> cl.st]
                     \in s.stops)
    ELSE s

ContextClosed(c) ==
    /\ contexts[c] = "closing"
    /\ Turn(ResumeCloseWaiter([Cur EXCEPT !.contexts[c] = "closed"], c))

\* scriptProcessor.onaudioprocess: the buffer is encoded; the blob is sent
\* if the session handle is set and its promise resolved
OnAudioProcess(s, data) ==
    IF s.sessionPromiseRef # 0 /\ s.sessions[s.sessionPromiseRef] = "open"
    THEN [s EXCEPT !.realtimeInput = Append(@, CreateBlob(data))]
    ELSE s

\* the audio graph delivers a buffer of the running context
AudioProcess(data) ==
    /\ scriptProcessorRef # 0
    /\ contexts[scriptProcessorRef] = "running"
    /\ Turn(OnAudioProcess(Cur, data))

\* the 500 ms timer of a finished stopListening fires
StopTimerFire ==
    /\ stopTimers > 0
    /\ Turn(StartWakeWordListener([Cur EXCEPT !.stopTimers = @ - 1],
                                  "idle", "granted"))

\* an animation frame: the request the ref holds, or an older one
Averages == {0, 30, 255}

AnimationFrame(ofRef, average) ==
    /\ pendingFrames > 0
    /\ IF ofRef THEN animationFrameRef = "live"
       ELSE pendingFrames > (IF animationFrameRef = "live" THEN 1 ELSE 0)
    /\ Turn(UpdateAudioLevel(
           [Cur EXCEPT !.pendingFrames = @ - 1,
                       !.animationFrameRef = IF ofRef THEN "stale" ELSE @],
           average))

\* ------------------------------------------------------ the recognizer
BackoffErrors == {"audio-capture", "network"}
RecognitionErrors ==
    BackoffErrors \cup {"no-speech", "aborted", "not-allowed"}

\* recognition.onresult; wake: the transcript holds the wake phrase
OnResult(s, r, wake) ==
    IF wake
    THEN [s EXCEPT !.wakeWordRetryCountRef = 0,
                   !.shouldStartListening = TRUE,
                   !.startRequest = "wake",
                   !.recognizers[r].status = "ending"]
    ELSE [s EXCEPT !.wakeWordRetryCountRef = 0]

RecognitionResult(r, wake) ==
    /\ recognizers[r].attached
    /\ recognizers[r].status = "running"
    /\ wake => \/ HasFreeAttempt(Cur) \/ ~apiKey
               \/ listeningState \notin {"idle", "error"}
    /\ Turn(OnResult(Cur, r, wake))

\* an onerror that counts every error
OnRecognitionErrorCountsAll(s, error) ==
    [s EXCEPT !.wakeWordRetryCountRef = @ + 1]

\* recognition.onerror; recognition ends after an error
OnRecognitionError(s, error) ==
    IF error \in BackoffErrors
    THEN [s EXCEPT !.wakeWordRetryCountRef = @ + 1]
    ELSE s

RecognitionError(r, error, maxRetry) ==
    /\ recognizers[r].attached
    /\ recognizers[r].status = "running"
    /\ error \in BackoffErrors => wakeWordRetryCountRef < maxRetry
    /\ Turn(OnRecognitionError(
           [Cur EXCEPT !.recognizers[r].status = "ending"], error))

\* an onend that sets no timer
OnEndNoRestart(s, r) == s

\* recognition.onend
OnEnd(s, r) ==
    IF s.speechRecognitionRef = r
    THEN [s EXCEPT !.recognizers[r].timer = TRUE,
                   !.recognizers[r].delay = WakeDelay(s.wakeWordRetryCountRef)]
    ELSE s

RecognitionEnd(r) ==
    /\ recognizers[r].attached
    /\ recognizers[r].status \in {"running", "ending"}
    /\ Turn(OnEnd([Cur EXCEPT !.recognizers[r].status = "ended"], r))

\* the timer callback without `speechRecognitionRef.current === recognition`
OnRestartTimerUnchecked(s, r) ==
    [s EXCEPT !.recognizers[r].status = "running"]

\* the restart timer set by onend fires
OnRestartTimer(s, r) ==
    IF s.speechRecognitionRef = r
    THEN [s EXCEPT !.recognizers[r].status = "running"]
    ELSE [s EXCEPT !.recognizers[r] = FreeRecognizer]

RestartTimerFire(r) ==
    /\ recognizers[r].timer
    /\ Turn(OnRestartTimer(
           [Cur EXCEPT !.recognizers[r].timer = FALSE,
                       !.recognizers[r].delay = 0], r))

\* ------------------------------------------------------------------ Next
WordSend == <<"s","e","n","d">>

\* the capture attempt and the full stop: the user, the permission query,
\* getUserMedia, the AudioContext, the live session, the timers of
\* startListening and stopListening
NextCapture ==
    \/ MicClick
    \/ PermissionGranted
    \/ \E a \in Attempts : SettleDone(a)
    \/ \E a \in Attempts, suspended \in BOOLEAN : GetUserMediaResolved(a, suspended)
    \/ \E a \in Attempts, denied \in BOOLEAN : GetUserMediaRejected(a, denied)
    \/ \E a \in Attempts : ResumeSettled(a)
    \/ \E a \in Attempts : ConnectionTimeout(a)
    \/ \E a \in Attempts, average \in Averages : SessionOpen(a, average)
    \/ \E a \in Attempts : SessionError(a)
    \/ \E a \in Attempts : SessionClose(a)
    \/ \E c \in Attempts : ContextClosed(c)
    \/ StopTimerFire

\* the events of the SpeechRecognition instances
NextRecognizer ==
    \/ \E r \in Recognizers, wake \in BOOLEAN : RecognitionResult(r, wake)
    \/ \E r \in Recognizers, error \in RecognitionErrors :
           RecognitionError(r, error, MaxRetry)
    \/ \E r \in Recognizers : RecognitionEnd(r)
    \/ \E r \in Recognizers : RestartTimerFire(r)

Next ==
    \/ NextCapture
    \/ NextRecognizer
    \/ \E a \in Attempts : OnMessage(a, TRUE, WordSend, TRUE, MaxLen)
    \/ \E ofRef \in BOOLEAN, average \in Averages : AnimationFrame(ofRef, average)

Spec == Init /\ [][Next]_vars

\* The capture attempt and the full stop without the recognizer's own events
\* (the recognizer is still started and stopped by the effect and the timer).
SpecCapture == Init /\ [][NextCapture]_vars

\* ------------------------------------------------------------- dictation
\* The inputTranscription texts of the server messages in the dictation
\* model: texts that start a transcript (at most MaxPrefix characters before
\* a phrase), the command phrases as the service may spell them, and a
\* sentence.
StartTexts == { <<"a">>, <<" ">>, <<"a"," ">>, <<"a",".">> }

PhraseTexts ==
    { <<"s","e","n","d">>,
      <<"S","e","n","d",".">>,
      <<"d","o","n","e"," ">>,
      <<"s","t","o","p"," ","l","i","s","t","e","n","i","n","g">>,
      <<"S","t","o","p"," ","r","e","c","o","r","d","i","n","g",".">>,
      <<"c","l","e","a","r"," ","i","n","p","u","t">>,
      <<"R","e","m","o","v","e",".">> }

SentenceText ==
    <<"P","l","e","a","s","e"," ","e","m","a","i","l"," ","t","h","e"," ","c","l","i","e","n","t"," ","s","e","n","d">>

\* the server messages: with text or without, with turnComplete or without
DictationMessages ==
    { [hasText |-> TRUE, text |-> x, turnComplete |-> tc, maxLen |-> MaxPrefix] :
          x \in StartTexts, tc \in BOOLEAN }
    \cup { [hasText |-> TRUE, text |-> x, turnComplete |-> tc,
            maxLen |-> MaxPrefix + Len(x)] :
              x \in PhraseTexts, tc \in BOOLEAN }
    \cup { [hasText |-> TRUE, text |-> SentenceText, turnComplete |-> tc,
            maxLen |-> Len(SentenceText)] : tc \in BOOLEAN }
    \cup { [hasText |-> FALSE, text |-> <<>>, turnComplete |-> TRUE, maxLen |-> 0] }

\* The component while it listens: micPermission was reported granted, the
\* user clicked the microphone, the settle wait passed, getUserMedia
\* resolved, the AudioContext was running, the session opened (a state that
\* Spec reaches by PermissionGranted, MicClick, SettleDone,
\* GetUserMediaResolved, SessionOpen).
InitDictation ==
    /\ inputValue = <<>>
    /\ listeningState = "listening"
    /\ micPermission = "granted"
    /\ shouldStartListening = FALSE
    /\ audioLevel = 0
    /\ sessionPromiseRef = 1
    /\ audioContextRef = 1
    /\ analyserRef = 1
    /\ scriptProcessorRef = 1
    /\ mediaStreamRef = 1
    /\ currentTranscriptionRef = <<>>
    /\ speechRecognitionRef = 0
    /\ connectionTimeoutRef = 0
    /\ animationFrameRef = "null"
    /\ wakeWordRetryCountRef = 0
    /\ listeningStateRef = "listening"
    /\ stopListeningScope = "idle"
    /\ apiKey = TRUE
    /\ attempts = [a \in Attempts |->
                      IF a = 1 THEN [pc |-> "done", mic |-> "granted",
                                     st |-> "idle", cancelled |-> FALSE]
                      ELSE NoAttempts(MaxAttempts)[a]]
    /\ streams = [a \in Attempts |-> IF a = 1 THEN "live" ELSE "none"]
    /\ contexts = [a \in Attempts |-> IF a = 1 THEN "running" ELSE "none"]
    /\ sessions = [a \in Attempts |-> IF a = 1 THEN "open" ELSE "none"]
    /\ connTimers = [a \in Attempts |-> FALSE]
    /\ stops = {}
    /\ stopTimers = 0
    /\ recognizers = [r \in Recognizers |-> FreeRecognizer]
    /\ pendingFrames = 0
    /\ onSendCalls = <<>>
    /\ onErrorCalls = <<>>
    /\ voiceCommand = "none"
    /\ realtimeInput = <<>>
    /\ startRequest = "none"
    /\ closeCalls = <<>>
    /\ mounted = TRUE
    /\ retry = NotCalled

\* the session reports the transcript; a full stop that a command triggers
\* runs to its end
NextDictation ==
    \/ \E a \in Attempts, m \in DictationMessages :
           OnMessage(a, m.hasText, m.text, m.turnComplete, m.maxLen)
    \/ \E c \in Attempts : ContextClosed(c)
    \/ \E a \in Attempts : SessionClose(a)
    \/ StopTimerFire

SpecDictation == InitDictation /\ [][NextDictation]_vars

\* -------------------------------------------------------------- encoding
\* the audio buffers of the model: one to MaxSamples samples
Buffers ==
    UNION { [1..n -> Samples] : n \in 1..MaxSamples }

\* while the component listens, the audio graph delivers buffers until the
\* session is closed
NextEncode ==
    \/ \E data \in Buffers : AudioProcess(data)
    \/ \E a \in Attempts : SessionClose(a)

SpecEncode == InitDictation /\ [][NextEncode]_vars

\* ------------------------------------------------------------- wake word
\* the wake-word listener: the permission, the recognizer's events with
\* errors up to MaxRetryWake in a row, the click and the wake word that end
\* the listening for the wake word
NextWake ==
    \/ PermissionGranted
    \/ MicClick
    \/ \E r \in Recognizers, wake \in BOOLEAN : RecognitionResult(r, wake)
    \/ \E r \in Recognizers, error \in RecognitionErrors :
           RecognitionError(r, error, MaxRetryWake)
    \/ \E r \in Recognizers : RecognitionEnd(r)
    \/ \E r \in Recognizers : RestartTimerFire(r)

SpecWake == Init /\ [][NextWake]_vars

\* the same, where a timer that onend set fires (setTimeout runs its callback
\* once the delay is over)
SpecWakeFair ==
    SpecWake /\ \A r \in Recognizers : WF_vars(RestartTimerFire(r))

\* -------------------------------------------------------------- listener
\* the wake-word listener over several capture attempts: the events of the
\* wake-word model, and attempts that end when getUserMedia rejects, after
\* which the listener is started again
NextListener ==
    \/ NextWake
    \/ \E a \in Attempts : SettleDone(a)
    \/ \E a \in Attempts, denied \in BOOLEAN : GetUserMediaRejected(a, denied)
    \/ StopTimerFire

SpecListener == Init /\ [][NextListener]_vars

\* ------------------------------------------------- generateContentWithRetry
\* what the rejected call's error says: one of the texts the catch block
\* looks for, another text, or a value that is no Error
ErrorKinds ==
    {"api key not valid", "safety", "400 bad request", "invalid argument",
     "quota", "503 service unavailable", "other", "no Error"}

MsgConnecting == "Sorry, I'm having trouble connecting to my services. Please try again in a moment."
MsgConfiguration == "There appears to be an issue with the API configuration. Please ensure the API key is correct and valid."
MsgSafety == "I'm sorry, but your request could not be processed due to safety settings. Please modify your input and try again."
MsgFormat == "There was a problem with the request format. Please try rephrasing your input."
MsgQuota == "The request limit has been reached for the day. Please try again later."
MsgUnavailable == "The service is temporarily unavailable. Please try again in a few minutes."
MsgRetries == "API call failed after multiple retries."

UserMessages ==
    {MsgConnecting, MsgConfiguration, MsgSafety, MsgFormat, MsgQuota,
     MsgUnavailable}

\* the message of the Error that the catch block throws after the last
\* attempt
UserFriendlyMessage(kind) ==
    IF kind = "api key not valid" THEN MsgConfiguration
    ELSE IF kind = "safety" THEN MsgSafety
    ELSE IF kind \in {"400 bad request", "invalid argument"} THEN MsgFormat
    ELSE IF kind = "quota" THEN MsgQuota
    ELSE IF kind = "503 service unavailable" THEN MsgUnavailable
    ELSE MsgConnecting

\* the delays of the model, in ms
Delays == {0, 500, 1000}

\* the head of the for loop: the next call of ai.models.generateContent, or
\* the throw after the loop
LoopHead(rt) ==
    IF rt.i < rt.retries
    THEN [rt EXCEPT !.pc = "call", !.calls = @ + 1]
    ELSE [rt EXCEPT !.pc = "thrown", !.errors = Append(@, MsgRetries)]

\* generateContentWithRetry(params, retries, delay) up to its first await
GenerateContentWithRetry(retries, delay) ==
    LoopHead([NotCalled EXCEPT !.retries = retries, !.delay = delay])

\* a catch block without `if (i === retries - 1)`: it waits after every
\* failure
OnRejectedAlwaysWaits(rt, kind) ==
    [rt EXCEPT !.pc = "wait",
               !.waits = Append(@, rt.delay * Pow2(rt.i))]

\* the catch block
OnRejected(rt, kind) ==
    IF rt.i = rt.retries - 1
    THEN [rt EXCEPT !.pc = "thrown",
                    !.errors = Append(@, UserFriendlyMessage(kind))]
    ELSE [rt EXCEPT !.pc = "wait",
                    !.waits = Append(@, rt.delay * Pow2(rt.i))]

componentVars ==
    <<inputValue, listeningState, micPermission, shouldStartListening, audioLevel,
      sessionPromiseRef, audioContextRef, analyserRef, scriptProcessorRef,
      mediaStreamRef, currentTranscriptionRef, speechRecognitionRef,
      connectionTimeoutRef, animationFrameRef, wakeWordRetryCountRef,
      listeningStateRef, stopListeningScope, apiKey, attempts, streams,
      contexts, sessions, connTimers, stops, stopTimers, recognizers,
      pendingFrames, onSendCalls, onErrorCalls, voiceCommand, realtimeInput,
      startRequest, closeCalls, mounted>>

\* ai.models.generateContent resolves: its result is returned
CallResolved ==
    /\ retry.pc = "call"
    /\ retry' = [retry EXCEPT !.pc = "returned"]
    /\ UNCHANGED componentVars

\* ai.models.generateContent rejects
CallRejected(kind) ==
    /\ retry.pc = "call"
    /\ retry' = OnRejected(retry, kind)
    /\ UNCHANGED componentVars

\* the timer of the back-off fires: i++, the loop goes on
WaitOver ==
    /\ retry.pc = "wait"
    /\ retry' = LoopHead([retry EXCEPT !.i = @ + 1])
    /\ UNCHANGED componentVars

\* one invocation with retries in 0..MaxRetries and a delay of Delays
InitRetry ==
    /\ InitChatInput
    /\ retry \in {GenerateContentWithRetry(r, d) : r \in 0..MaxRetries, d \in Delays}

NextRetry ==
    \/ CallResolved
    \/ \E kind \in ErrorKinds : CallRejected(kind)
    \/ WaitOver

SpecRetry == InitRetry /\ [][NextRetry]_vars

\* the same, where the call settles and the timer fires
SpecRetryFair ==
    SpecRetry /\ WF_vars(CallResolved \/ \E kind \in ErrorKinds : CallRejected(kind))
              /\ WF_vars(WaitOver)

\* ----------------------------------------------------------------- unmount
\* React unmounts the component: the cleanups of its effects run in the
\* order of their declaration, with the closures of the last render (the
\* wake-word effect, then "cleanup on unmount").
Unmount ==
    /\ mounted
    /\ Commit(Unrendered(UnmountCleanup(
           WakeEffectCleanup([Cur EXCEPT !.mounted = FALSE]), Closure(Cur))))

\* the capture attempt and the full stop, and the unmount at any moment
NextUnmount ==
    \/ NextCapture
    \/ Unmount

SpecUnmount == Init /\ [][NextUnmount]_vars

\* --------------------------------------------------------- visualization
\* The component after construction with an API key, MaxSlots invocations of
\* startListening left to tell apart.
InitLevel ==
    /\ inputValue = <<>>
    /\ listeningState = "idle"
    /\ micPermission = "prompt"
    /\ shouldStartListening = FALSE
    /\ audioLevel = 0
    /\ sessionPromiseRef = 0
    /\ audioContextRef = 0
    /\ analyserRef = 0
    /\ scriptProcessorRef = 0
    /\ mediaStreamRef = 0
    /\ currentTranscriptionRef = <<>>
    /\ speechRecognitionRef = 0
    /\ connectionTimeoutRef = 0
    /\ animationFrameRef = "null"
    /\ wakeWordRetryCountRef = 0
    /\ listeningStateRef = "idle"
    /\ stopListeningScope = "idle"
    /\ apiKey = TRUE
    /\ attempts = NoAttempts(MaxSlots)
    /\ streams = [a \in Attempts |-> "none"]
    /\ contexts = [a \in Attempts |-> "none"]
    /\ sessions = [a \in Attempts |-> "none"]
    /\ connTimers = [a \in Attempts |-> FALSE]
    /\ stops = {}
    /\ stopTimers = 0
    /\ recognizers = [r \in Recognizers |-> FreeRecognizer]
    /\ pendingFrames = 0
    /\ onSendCalls = <<>>
    /\ onErrorCalls = <<>>
    /\ voiceCommand = "none"
    /\ realtimeInput = <<>>
    /\ startRequest = "none"
    /\ closeCalls = <<>>
    /\ mounted = TRUE
    /\ retry = NotCalled

\* the clicks, the capture attempts that succeed, the full stop and the
\* animation frames of the level loop
NextLevel ==
    \/ MicClick
    \/ \E a \in Attempts : SettleDone(a)
    \/ \E a \in Attempts : GetUserMediaResolved(a, FALSE)
    \/ \E a \in Attempts, average \in Averages : SessionOpen(a, average)
    \/ \E c \in Attempts : ContextClosed(c)
    \/ \E a \in Attempts : SessionClose(a)
    \/ \E ofRef \in BOOLEAN, average \in Averages : AnimationFrame(ofRef, average)

SpecLevel == InitLevel /\ [][NextLevel]_vars

\* =================================================================== claims

\* C1 (microphone mutual exclusion): in every reachable state it is not the
\* case that a wake-word recognizer is registered and started
\* (speechRecognitionRef non-null, the instance running) while mediaStreamRef
\* holds a stream whose tracks are not stopped.
C1_MicrophoneMutualExclusion ==
    ~(/\ speechRecognitionRef # 0
      /\ recognizers[speechRecognitionRef].status = "running"
      /\ mediaStreamRef # 0
      /\ streams[mediaStreamRef] = "live")

\* --- C2
\* what the claim lists: the capture state, the handles, the buffer, the level
Handles(s) ==
    <<s.listeningState, s.connectionTimeoutRef, s.animationFrameRef,
      s.mediaStreamRef, s.scriptProcessorRef, s.analyserRef, s.audioContextRef,
      s.sessionPromiseRef, s.currentTranscriptionRef, s.audioLevel>>

Released == <<"idle", 0, "null", 0, 0, 0, 0, 0, <<>>, 0>>

\* every pending AudioContext.close() resolves
RECURSIVE CloseContexts(_)
CloseContexts(s) ==
    IF \E c \in Attempts : s.contexts[c] = "closing"
    THEN CloseContexts(Render(ResumeCloseWaiter(
             [s EXCEPT !.contexts[CHOOSE c \in Attempts : s.contexts[c] = "closing"]
                           = "closed"],
             CHOOSE c \in Attempts : s.contexts[c] = "closing")))
    ELSE s

\* a session promise that stopListening awaits resolves (after onopen)
Awaited(s) ==
    {a \in Attempts : s.sessions[a] = "connecting" /\ SessionWaiters(s, a) # {}}

\* the awaits of the suspended stopListening invocations settle, and the
\* sessions they closed report onclose
RECURSIVE Settle(_)
Settle(s) ==
    IF \E c \in Attempts : s.contexts[c] = "closing"
    THEN Settle(CloseContexts(s))
    ELSE IF Awaited(s) # {}
    THEN Settle(Render(ResumeSessionWaiters(
             OnOpen([s EXCEPT !.sessions[CHOOSE a \in Awaited(s) : TRUE] = "open"], 0),
             CHOOSE a \in Awaited(s) : TRUE)))
    ELSE IF \E a \in Attempts : s.sessions[a] = "closing"
    THEN Settle(Render(OnClose(
             [s EXCEPT !.sessions[CHOOSE a \in Attempts : s.sessions[a] = "closing"]
                           = "closed"],
             CHOOSE a \in Attempts : s.sessions[a] = "closing")))
    ELSE s

\* stopListening once; twice back to back; the second call beginning while
\* the first is suspended at close(); while it is suspended at the session
\* promise
StopOnce(s, cl) == Settle(Render(StopListening(s, cl)))

StopTwice(s, cl) == Settle(Render(StopListening(StopListening(s, cl), cl)))

StopAtClose(s, cl) ==
    Settle(Render(StopListening(Render(StopListening(s, cl)), cl)))

StopAtSession(s, cl) ==
    Settle(Render(StopListening(CloseContexts(Render(StopListening(s, cl))), cl)))

\* the stopListening closures that are alive: the one of the last render and
\* the ones the startListening invocations hold
StopClosures == {Closure(Cur)} \cup {ClosureOf(Cur, a) : a \in Attempts}

C3_CancelBeforeConnect ==
    [][\A a \in Attempts :
           (/\ attempts[a].cancelled
            /\ \/ attempts'[a].pc # attempts[a].pc
               \/ sessions'[a] # sessions[a])
           => listeningState' = listeningState]_vars

\* C4 (permission-denied outcome): when getUserMedia rejects with
\* NotAllowedError or PermissionDeniedError, micPermission becomes denied and
\* the capture state the attempt comes to rest in is error.
C4_PermissionDeniedOutcome ==
    [][\A a \in Attempts :
           GetUserMediaRejected(a, TRUE)
           => micPermission' = "denied" /\ listeningState' = "error"]_vars

\* C5 (no re-prompt while denied): while micPermission is denied, until the
\* permission is reported granted, a start attempt is a no-op: no invocation
\* of startListening passes its guards, and none calls getUserMedia and sets
\* requesting_permission.
C5_NoRepromptWhileDenied ==
    [][(micPermission = "denied" /\ micPermission' = "denied")
       => \A a \in Attempts :
              attempts'[a].pc \in {"settle", "getUserMedia"}
              => attempts'[a].pc = attempts[a].pc]_vars

\* --- C6 to C9
\* the transcript after the message m
After(m) ==
    IF m.hasText THEN currentTranscriptionRef \o m.text ELSE currentTranscriptionRef

\* the texts a transcript can start with
TextsBefore(t) == {SubSeq(t, 1, k) : k \in 0..Len(t)}

\* t is pre, then one of the phrases as a word of its own (in any case),
\* then an optional period
Spoken(t, pre, phrases) ==
    \E p \in phrases, d \in {<<>>, Dot} :
        /\ Len(t) = Len(pre) + Len(p) + Len(d)
        /\ SubSeq(t, 1, Len(pre)) = pre
        /\ LowerSeq(SubSeq(t, Len(pre) + 1, Len(t))) = p \o d
        /\ pre = <<>> \/ pre[Len(pre)] \in {" ", "."}

\* a full stop is triggered: idle, the handles released, the tracks stopped,
\* close() called on the AudioContext
FullStopTriggered ==
    /\ listeningState' = "idle"
    /\ audioLevel' = 0
    /\ currentTranscriptionRef' = <<>>
    /\ connectionTimeoutRef' = 0
    /\ animationFrameRef' = "null"
    /\ mediaStreamRef' = 0
    /\ scriptProcessorRef' = 0
    /\ analyserRef' = 0
    /\ mediaStreamRef # 0 => streams'[mediaStreamRef] = "stopped"
    /\ audioContextRef # 0 => contexts'[audioContextRef] \in {"closing", "closed"}

\* the capture state, the handles and what they refer to do not change
CaptureUnchanged ==
    UNCHANGED <<listeningState, micPermission, shouldStartListening, audioLevel,
                sessionPromiseRef, audioContextRef, analyserRef,
                scriptProcessorRef, mediaStreamRef, speechRecognitionRef,
                connectionTimeoutRef, animationFrameRef, wakeWordRetryCountRef,
                listeningStateRef, attempts, streams, contexts, sessions,
                connTimers, stops, stopTimers, recognizers, pendingFrames>>

TaskText == <<"P","l","e","a","s","e"," ","e","m","a","i","l"," ","t","h","e"," ","c","l","i","e","n","t">>

\* C6 (send command): at a turn-complete message whose accumulated, trimmed
\* transcript ends with a send phrase (send / done, optional period, any
\* case), the trimmed text before the phrase is passed to onSend exactly once
\* if it is non-empty and not at all if it is empty; the live input is
\* emptied, the transcript buffer is cleared and a full stop is triggered.
C6_SendCommand ==
    [][\A a \in Attempts, m \in DictationMessages :
           \A pre \in TextsBefore(Trim(After(m))) :
               (/\ m.turnComplete
                /\ Spoken(Trim(After(m)), pre, SendPhrases)
                /\ OnMessage(a, m.hasText, m.text, m.turnComplete, m.maxLen))
               => /\ onSendCalls' =
                         IF Trim(pre) = <<>> THEN <<>> ELSE <<Trim(pre)>>
                  /\ inputValue' = <<>>
                  /\ FullStopTriggered]_vars

\* C6 witness: "Please email the client send" at turn-complete has passed
\* "Please email the client" to onSend, once; the input is empty, the state
\* idle.
C6_Witness ==
    /\ voiceCommand = "send"
    /\ onSendCalls = <<TaskText>>
    /\ inputValue = <<>>
    /\ currentTranscriptionRef = <<>>
    /\ listeningState = "idle"

\* C7 (clear command): at a turn-complete message whose accumulated
\* transcript ends with a clear phrase (clear input / remove), the transcript
\* buffer and the live input become empty, onSend is not called, and nothing
\* else changes: the capture state, the session handle, the media stream, the
\* audio graph and the connect-timeout handle are as before.
C7_ClearCommand ==
    [][\A a \in Attempts, m \in DictationMessages :
           \A pre \in TextsBefore(Trim(After(m))) :
               (/\ m.turnComplete
                /\ Spoken(Trim(After(m)), pre, ClearPhrases)
                /\ OnMessage(a, m.hasText, m.text, m.turnComplete, m.maxLen))
               => /\ currentTranscriptionRef' = <<>>
                  /\ inputValue' = <<>>
                  /\ onSendCalls' = <<>>
                  /\ CaptureUnchanged]_vars

\* C7 witness: a clear command has run while listening: buffer and input
\* are empty, the stream and the session are still held.
C7_Witness ==
    /\ voiceCommand = "clear"
    /\ listeningState = "listening"
    /\ currentTranscriptionRef = <<>>
    /\ inputValue = <<>>
    /\ mediaStreamRef # 0
    /\ sessionPromiseRef # 0

\* C8 (stop command): at a turn-complete message whose accumulated transcript
\* ends with a stop phrase (stop listening / stop recording), onSend is not
\* called, the (trimmed) text before the phrase becomes the live input value
\* and a full stop is triggered, ending in idle.
C8_StopCommand ==
    [][\A a \in Attempts, m \in DictationMessages :
           \A pre \in TextsBefore(Trim(After(m))) :
               (/\ m.turnComplete
                /\ Spoken(Trim(After(m)), pre, StopPhrases)
                /\ OnMessage(a, m.hasText, m.text, m.turnComplete, m.maxLen))
               => /\ onSendCalls' = <<>>
                  /\ inputValue' = Trim(pre)
                  /\ FullStopTriggered]_vars

\* C8 witness: a stop command spoken after "a" has run: the input is "a",
\* nothing was sent, the state is idle.
C8_Witness ==
    /\ voiceCommand = "stop"
    /\ inputValue = <<"a">>
    /\ onSendCalls = <<>>
    /\ listeningState = "idle"
    /\ mediaStreamRef = 0

\* C9 (commands only at turn-complete): a server message with transcript
\* text and no turnComplete flag appends the text to the transcript buffer
\* and sets the live input to the buffer; it calls onSend never, triggers no
\* stop and does not clear the buffer, also when the transcript then ends
\* with a command phrase.
C9_PartialTranscript ==
    [][\A a \in Attempts, m \in DictationMessages :
           (/\ m.hasText
            /\ ~m.turnComplete
            /\ OnMessage(a, m.hasText, m.text, m.turnComplete, m.maxLen))
           => /\ currentTranscriptionRef' = currentTranscriptionRef \o m.text
              /\ inputValue' = currentTranscriptionRef \o m.text
              /\ onSendCalls' = <<>>
              /\ voiceCommand' = "none"
              /\ CaptureUnchanged]_vars

\* C9 witness: while listening, the transcript that partial messages built
\* ends with a command phrase and no command has run.
C9_Witness ==
    /\ voiceCommand = "none"
    /\ listeningState = "listening"
    /\ inputValue = currentTranscriptionRef
    /\ \E pre \in TextsBefore(Trim(currentTranscriptionRef)) :
           Spoken(Trim(currentTranscriptionRef), pre,
                  SendPhrases \cup StopPhrases \cup ClearPhrases)

\* --- C10
\* the delay the claim states for the retry counter n
ClaimedDelay(n) == IF n = 0 THEN 300 ELSE Min(500 * (2 ^ n), 30000)

\* C10 (wake-word restart delay): whenever onend has set the restart timer
\* of the registered recognizer, with the retry counter at n, the delay is
\* 300 ms when n = 0 and min(500 * 2^n, 30000) ms when n > 0; the delays for
\* 0, 1, 2, ... are non-decreasing, none exceeds 30000 ms, and the delay for
\* 0 is the least.
C10_WakeRestartDelay ==
    /\ \A r \in Recognizers :
           (recognizers[r].attached /\ recognizers[r].timer)
           => /\ recognizers[r].delay = ClaimedDelay(wakeWordRetryCountRef)
              /\ recognizers[r].delay <= 30000
              /\ recognizers[r].delay >= WakeDelay(0)
              /\ \A m \in 0..wakeWordRetryCountRef :
                     WakeDelay(m) <= recognizers[r].delay
    /\ \A n \in 0..MaxRetryWake :
           /\ WakeDelay(n) = ClaimedDelay(n)
           /\ WakeDelay(n) <= WakeDelay(n + 1)
           /\ WakeDelay(0) <= WakeDelay(n)
           /\ WakeDelay(n) <= 30000

\* C10 witness: after six or more errors in a row the restart timer of the
\* registered recognizer is set with the capped delay.
C10_Witness ==
    \E r \in Recognizers :
        /\ speechRecognitionRef = r
        /\ recognizers[r].timer
        /\ wakeWordRetryCountRef >= 6
        /\ recognizers[r].delay = 30000

\* --- C11
\* C11 (PCM encoding range): every blob passed to the session holds, for
\* every sample of the buffer, a 16-bit value between -32768 and 32767; a
\* sample of 1.0 or more is encoded as 32767, a sample of -1.0 or less (such
\* as -1.5) as -32768; and the value never has the sign opposite to the
\* sample's: a positive sample gives a value >= 0, a negative one a value
\* <= 0 (a sample of less than one step gives 0), and 0 gives 0.
C11_PcmEncodingRange ==
    \A k \in 1..Len(realtimeInput) :
        \A i \in 1..Len(realtimeInput[k].input) :
            /\ realtimeInput[k].int16[i] \in (0 - 32768)..32767
            /\ realtimeInput[k].input[i].num >= realtimeInput[k].input[i].den
               => realtimeInput[k].int16[i] = 32767
            /\ realtimeInput[k].input[i].num <= 0 - realtimeInput[k].input[i].den
               => realtimeInput[k].int16[i] = 0 - 32768
            /\ realtimeInput[k].input[i].num > 0 => realtimeInput[k].int16[i] >= 0
            /\ realtimeInput[k].input[i].num < 0 => realtimeInput[k].int16[i] <= 0
            /\ realtimeInput[k].input[i].num = 0 => realtimeInput[k].int16[i] = 0

\* C11 witness: a buffer with the samples -1.5 and 1.0 was encoded and sent
\* as -32768 and 32767.
C11_Witness ==
    /\ realtimeInput # <<>>
    /\ realtimeInput[1].input = <<Sample(-3, 2), Sample(1, 1)>>
    /\ realtimeInput[1].int16 = <<0 - 32768, 32767>>

\* --- C12
\* C12 (start guard): a wake signal that arrives while listeningState is
\* requesting_permission, initializing_audio, connecting or listening (the
\* state of the last render, which is the state the startListening of the
\* effect reads) is a no-op: the registration of the wake-word listener and
\* its handlers stay, no invocation of startListening passes the guard (none
\* will call getUserMedia or connect), no stream, context or session changes,
\* nothing is reported and listeningState is as before. handleMicClick in
\* these states is a stop request.
C12_StartGuard ==
    [][\A r \in Recognizers :
           (listeningState \in ActiveStates /\ RecognitionResult(r, TRUE))
           => /\ speechRecognitionRef' = speechRecognitionRef
              /\ recognizers'[r].attached = recognizers[r].attached
              /\ UNCHANGED <<attempts, streams, contexts, sessions, connTimers,
                             stops, stopTimers, listeningState, micPermission,
                             mediaStreamRef, audioContextRef, sessionPromiseRef,
                             connectionTimeoutRef, listeningStateRef>>
              /\ shouldStartListening' = FALSE
              /\ onErrorCalls' = <<>>]_vars

\* C12 witness: the wake phrase was heard while a capture attempt was under
\* way; the listener is still registered and the request is consumed.
C12_Witness ==
    /\ startRequest = "wake"
    /\ listeningState \in ActiveStates
    /\ speechRecognitionRef # 0
    /\ ~shouldStartListening

\* --- C13
\* C13 (teardown before the wake-word restart): whenever a turn starts a
\* wake-word recognizer (a new instance, or the registered one again), the
\* audio context and the remote session of the dictation session are
\* released: audioContextRef and sessionPromiseRef are null.
C13_TeardownBeforeWakeRestart ==
    [][(/\ speechRecognitionRef' # 0
        /\ recognizers'[speechRecognitionRef'].status = "running"
        /\ \/ speechRecognitionRef = 0
           \/ recognizers[speechRecognitionRef].status # "running")
       => audioContextRef' = 0 /\ sessionPromiseRef' = 0]_vars

\* --- C14
\* C14 (wake-word release precedes the stream request): when the settle wait
\* of an invocation of startListening is over and it calls getUserMedia, no
\* wake-word recognizer is registered (speechRecognitionRef is null at the
\* start of that turn): nothing that happened during the wait registered one.
C14_ReleaseBeforeStreamRequest ==
    [][\A a \in Attempts :
           (attempts[a].pc = "settle" /\ attempts'[a].pc = "getUserMedia")
           => speechRecognitionRef = 0]_vars

\* --- C15
\* C15 (error sink coverage): a turn in which getUserMedia rejects (with a
\* permission denial or with another failure), in which resume() rejects, in
\* which the connection timeout fires or in which the session reports an
\* error passes exactly one string to onError.
C15_ErrorSinkCoverage ==
    [][\A a \in Attempts :
           (\/ \E denied \in BOOLEAN : GetUserMediaRejected(a, denied)
            \/ ResumeSettled(a) /\ contexts[a] # "suspended"
            \/ ConnectionTimeout(a)
            \/ SessionError(a))
           => Len(onErrorCalls') = 1]_vars

\* --- C16
\* an event is pending that can set listeningState: a continuation of
\* startListening, the connection timeout while its condition holds, a
\* callback of a session that is connecting or open, the onclose of a closed
\* session while its condition holds
CanMove ==
    \/ \E a \in Attempts : attempts[a].pc \in {"settle", "getUserMedia", "resume"}
    \/ \E a \in Attempts :
           connTimers[a] /\ listeningStateRef \in {"connecting", "initializing_audio"}
    \/ \E a \in Attempts : sessions[a] \in {"connecting", "open"}
    \/ \E a \in Attempts :
           sessions[a] \in {"closing", "failing"}
           /\ listeningStateRef \in {"listening", "connecting"}

\* the failures of the claim: a microphone failure that is no permission
\* denial (getUserMedia or resume() rejects), the connection timeout, a
\* session error, a close of an open session that nobody asked for, and a
\* start without an API key
Failure(a) ==
    \/ GetUserMediaRejected(a, FALSE)
    \/ ResumeSettled(a) /\ contexts[a] # "suspended"
    \/ ConnectionTimeout(a)
       /\ listeningStateRef \in {"connecting", "initializing_audio"}
    \/ SessionError(a)
    \/ SessionClose(a) /\ sessions[a] = "open"
       /\ listeningStateRef \in {"connecting", "listening"}
    \/ MicClick /\ ~apiKey /\ listeningState \in {"idle", "error"}

\* C16 (retry after error): the turn of a failure leaves listeningState at
\* idle or error; in no reachable state is listeningState
\* requesting_permission, initializing_audio, connecting or listening with
\* no pending event that can move it; and a mic click while listeningState
\* is idle or error (and the permission is not denied) begins a new attempt:
\* an invocation of startListening passes the guard on listeningState and
\* goes into its settle wait, or, without an API key, reports that again.
C16_RetryAfterError ==
    /\ [](listeningState \in ActiveStates => CanMove)
    /\ [][\A a \in Attempts :
             Failure(a) => listeningState' \in {"idle", "error"}]_vars
    /\ [][(MicClick /\ listeningState \in {"idle", "error"})
          => \/ \E a \in Attempts :
                    attempts[a].pc = "free" /\ attempts'[a].pc = "settle"
             \/ /\ ~apiKey
                /\ onErrorCalls' = <<MsgApiKey>>
                /\ listeningState' = "error"]_vars

\* C16 witness: a session failed, the controller rested in idle with nothing
\* of that attempt pending, and a mic click has now begun a new attempt.
C16_Witness ==
    /\ startRequest = "manual"
    /\ listeningState = "idle"
    /\ \E a, b \in Attempts :
           /\ sessions[a] = "failed"
           /\ attempts[a].pc = "done"
           /\ ~connTimers[a]
           /\ attempts[b].pc = "settle"

\* --- C17
\* C17 (wake-listener start guard): a turn that registers and starts a
\* recognizer where none was registered ends with listeningState idle and
\* micPermission granted: whichever callback called startWakeWordListener
\* (the effect, the 500 ms timer of stopListening), no recognizer is started
\* while the state is not idle.
C17_WakeListenerStartGuard ==
    [][(/\ speechRecognitionRef = 0
        /\ speechRecognitionRef' # 0
        /\ recognizers'[speechRecognitionRef'].status = "running")
       => listeningState' = "idle" /\ micPermission' = "granted"]_vars

\* --- C18
\* C18 (full stop releases each resource once): close() is invoked at most
\* once on the AudioContext of a dictation session and at most once on its
\* remote session, also when stop triggers overlap: no turn calls close() on
\* an AudioContext on which close() was called before (it is closing or
\* closed), and no turn calls close() twice on the same context or session.
C18_ReleaseOnce ==
    [][/\ \A i, j \in 1..Len(closeCalls') :
              i # j => closeCalls'[i] # closeCalls'[j]
       /\ \A i \in 1..Len(closeCalls') :
              closeCalls'[i].kind = "context"
              => contexts[closeCalls'[i].of] \notin {"closing", "closed"}]_vars

\* --- C19
\* C19 (no spurious restart after stop): a recognizer on which
\* stopWakeWordListener has run (it is aborted, its handlers are detached,
\* it is not the registered instance) is never started again: it never runs
\* and never becomes the registered instance, no restart timer is set for it
\* (its onend is detached), and a restart timer that was pending when it was
\* stopped leaves it as it is when it fires.
C19_NoRestartAfterStop ==
    [][\A r \in Recognizers :
           (recognizers[r].status = "aborted" /\ ~recognizers[r].attached)
           => /\ recognizers'[r].status \in {"aborted", "unused"}
              /\ ~recognizers'[r].attached
              /\ recognizers'[r].timer => recognizers[r].timer
              /\ speechRecognitionRef' # r]_vars

\* C19 witness: a recognizer was stopped while its restart timer was
\* pending, and a new instance is registered and running before that timer
\* fires.
C19_Witness ==
    \E r \in Recognizers :
        /\ recognizers[r] = StaleRecognizer
        /\ speechRecognitionRef # 0
        /\ speechRecognitionRef # r
        /\ recognizers[speechRecognitionRef].status = "running"

\* --- C20
\* C20 (one capture attempt per wake detection): a result event that holds
\* the wake phrase, arriving while listeningState is idle or error and the
\* API key is set, aborts the recognizer and starts exactly one invocation
\* of startListening (no other invocation changes); at the end of the turn
\* the request is consumed, the recognizer is no longer registered and its
\* handlers are detached, so that no further result event and no end event
\* of it is handled; and an aborted recognizer never runs again, whatever
\* the capture attempt does.
C20_OneAttemptPerWake ==
    /\ [][\A r \in Recognizers :
             (/\ RecognitionResult(r, TRUE)
              /\ listeningState \in {"idle", "error"}
              /\ apiKey)
             => /\ Cardinality({a \in Attempts :
                       attempts[a].pc = "free" /\ attempts'[a].pc = "settle"}) = 1
                /\ \A a \in Attempts :
                       attempts[a].pc # "free" => attempts'[a] = attempts[a]
                /\ shouldStartListening' = FALSE
                /\ speechRecognitionRef' = 0
                /\ ~recognizers'[r].attached
                /\ recognizers'[r].status \in {"unused", "aborted"}]_vars
    /\ [][\A r \in Recognizers :
             (~recognizers[r].attached /\ recognizers[r].status # "unused")
             => recognizers'[r].status # "running"]_vars

\* C20 witness: the wake phrase was heard; one invocation of startListening
\* is in its settle wait, no recognizer is registered and none runs.
C20_Witness ==
    /\ startRequest = "wake"
    /\ Cardinality({a \in Attempts : attempts[a].pc = "settle"}) = 1
    /\ speechRecognitionRef = 0
    /\ ~shouldStartListening
    /\ \A r \in Recognizers : recognizers[r].status # "running"

\* --- C21
\* C21 (retry counter transitions): an audio-capture or network error event
\* of the recognizer adds exactly 1 to wakeWordRetryCountRef; every result
\* event sets it to 0; every turn that enters idle with micPermission
\* granted (from another state, or as the permission becomes granted) sets
\* it to 0; the other error events (no-speech, aborted, not-allowed), the
\* end event and the restart timer leave it as it is. No error event of the
\* recognizer changes listeningState, micPermission or the registration.
C21_RetryCounterTransitions ==
    /\ [][\A r \in Recognizers, error \in RecognitionErrors :
             RecognitionError(r, error, MaxRetryWake)
             => /\ wakeWordRetryCountRef' =
                       IF error \in {"audio-capture", "network"}
                       THEN wakeWordRetryCountRef + 1
                       ELSE wakeWordRetryCountRef
                /\ UNCHANGED <<listeningState, micPermission,
                               speechRecognitionRef>>]_vars
    /\ [][\A r \in Recognizers, wake \in BOOLEAN :
             RecognitionResult(r, wake) => wakeWordRetryCountRef' = 0]_vars
    /\ [][\A r \in Recognizers :
             (RecognitionEnd(r) \/ RestartTimerFire(r))
             => wakeWordRetryCountRef' = wakeWordRetryCountRef]_vars
    /\ [][(/\ listeningState' = "idle" /\ micPermission' = "granted"
           /\ listeningState # "idle" \/ micPermission # "granted")
          => wakeWordRetryCountRef' = 0]_vars

\* C21 witness: two capture or network errors in a row were counted and the
\* restart of the registered recognizer is pending.
C21_Witness ==
    /\ wakeWordRetryCountRef = 2
    /\ speechRecognitionRef # 0
    /\ recognizers[speechRecognitionRef].timer
    /\ recognizers[speechRecognitionRef].delay = 2000
    /\ listeningState = "idle"
    /\ micPermission = "granted"

C23_ConnectTimeoutCancellation ==
    /\ (\E a \in Attempts : connTimers[a])
       => listeningState \in {"initializing_audio", "connecting"}
    /\ Cardinality({a \in Attempts : connTimers[a]}) <= 1

\* --- C24
\* the program state without the connect-timeout timers and without what
\* the last turn passed to the props
ControllerUnchanged ==
    UNCHANGED <<inputValue, listeningState, micPermission, shouldStartListening,
                audioLevel, sessionPromiseRef, audioContextRef, analyserRef,
                scriptProcessorRef, mediaStreamRef, currentTranscriptionRef,
                speechRecognitionRef, connectionTimeoutRef, animationFrameRef,
                wakeWordRetryCountRef, listeningStateRef, stopListeningScope,
                attempts, streams, contexts, stops, stopTimers,
                recognizers, pendingFrames>>

ProgramUnchanged == ControllerUnchanged /\ UNCHANGED sessions

\* C24 (connect-timeout firing): when the timer of an invocation fires while
\* listeningState is connecting or initializing_audio, the timeout message
\* and nothing else is passed to onError and a full stop runs, ending in
\* idle; when it fires in any other state, nothing is passed to onError or
\* onSend, no close() is called and nothing of the program state changes
\* (the timer is no longer pending).
C24_ConnectTimeoutFiring ==
    [][\A a \in Attempts :
           ConnectionTimeout(a)
           => IF listeningState \in {"connecting", "initializing_audio"}
              THEN /\ onErrorCalls' = <<MsgTimeout>>
                   /\ FullStopTriggered
                   /\ listeningState' = "idle"
              ELSE /\ onErrorCalls' = <<>>
                   /\ onSendCalls' = <<>>
                   /\ closeCalls' = <<>>
                   /\ connTimers' = [connTimers EXCEPT ![a] = FALSE]
                   /\ ProgramUnchanged]_vars

\* C24 witness: the timeout fired while connecting: the message was passed
\* to onError, the state is idle, the stream is released and the session is
\* still connecting.
C24_Witness ==
    /\ onErrorCalls = <<MsgTimeout>>
    /\ listeningState = "idle"
    /\ mediaStreamRef = 0
    /\ \E a \in Attempts : sessions[a] = "connecting" /\ ~connTimers[a]

\* --- C25
\* C25 (remote error handling): the turn of an onerror event of the remote
\* session passes the connection-error message and nothing else to onError,
\* runs a full stop and leaves listeningState at idle or error; and once the
\* awaits of the suspended stopListening invocations have settled, every
\* handle is null (stream, audio graph, audio context, session promise,
\* timers), the buffer is empty and the level is 0.
C25_RemoteErrorHandling ==
    [][\A a \in Attempts :
           SessionError(a)
           => /\ onErrorCalls' = <<MsgConnection>>
              /\ FullStopTriggered
              /\ listeningState' \in {"idle", "error"}
              /\ (Handles(Settle(Cur)) = Released)']_vars

\* --- C26
\* C26 (remote close handling): the turn of an onclose event runs a full
\* stop when listeningState is listening or connecting; in every other
\* state (for example after the close that stopListening itself asked for)
\* it passes nothing to onError or onSend, calls no close(), starts no
\* stopListening invocation and changes nothing of the program state: only
\* the session is now closed.
C26_RemoteCloseHandling ==
    [][\A a \in Attempts :
           SessionClose(a)
           => IF listeningState \in {"listening", "connecting"}
              THEN FullStopTriggered
              ELSE /\ onErrorCalls' = <<>>
                   /\ onSendCalls' = <<>>
                   /\ closeCalls' = <<>>
                   /\ connTimers' = connTimers
                   /\ sessions' = [sessions EXCEPT ![a] =
                                      IF @ = "failing" THEN "failed" ELSE "closed"]
                   /\ ControllerUnchanged]_vars

\* C26 witness: the server closed the session while the controller was
\* listening: the full stop ran (idle, stream released, stopListening
\* suspended at AudioContext.close) and the session handle is still set.
C26_Witness ==
    \E a \in Attempts :
        /\ sessions[a] = "closed"
        /\ sessionPromiseRef = a
        /\ listeningState = "idle"
        /\ mediaStreamRef = 0
        /\ \E w \in stops : w.pc = "close"

\* --- C27
\* C27 (unexpected close is reported as an error): the turn of an onclose
\* event of an open session (no close() was asked for and no error was
\* reported) while listeningState is listening or connecting passes exactly
\* one string to onError.
C27_UnexpectedCloseReported ==
    [][\A a \in Attempts :
           (/\ SessionClose(a)
            /\ sessions[a] = "open"
            /\ listeningState \in {"listening", "connecting"})
           => Len(onErrorCalls') = 1]_vars

\* --- C28
\* C28 (teardown order): the transcript buffer is the last thing a full stop
\* releases: a turn in which stopListening runs while the component listens
\* (listeningState goes from listening to idle) and that empties a
\* non-empty transcript buffer has already closed the audio context and the
\* remote session (both handles are null, which stopListening sets after
\* the two close() calls).
C28_TeardownOrder ==
    [][(/\ listeningState = "listening"
        /\ listeningState' = "idle"
        /\ currentTranscriptionRef # <<>>
        /\ currentTranscriptionRef' = <<>>)
       => /\ audioContextRef' = 0
          /\ sessionPromiseRef' = 0]_vars

\* --- C29
\* C29 (wake listener stopped before leaving idle): in every reachable state
\* in which listeningState is not idle, no wake-word recognizer is
\* registered (speechRecognitionRef is null).
C29_NoListenerOutsideIdle ==
    listeningState # "idle" => speechRecognitionRef = 0

\* --- C30
\* C30 (wake listener resumes in idle, only after the settle delay): the
\* turn in which listeningState enters idle with micPermission granted does
\* not itself start a wake-word recognizer: at its end no recognizer is
\* registered and started (the start is left to the 500 ms timer that
\* stopListening sets when it has finished).
C30_ResumeAfterSettleDelay ==
    [][(/\ listeningState # "idle"
        /\ listeningState' = "idle"
        /\ micPermission' = "granted")
       => ~(/\ speechRecognitionRef' # 0
            /\ recognizers'[speechRecognitionRef'].status = "running")]_vars

\* --- C31
\* C31 (visualization confined to listening): an animation-frame request of
\* the level loop is pending only while listeningState is listening; the
\* turn in which listeningState leaves listening resets audioLevel to 0; a
\* frame that fires while listeningState is not listening requests no
\* further frame; and audioLevel is always within 0..100.
C31_VisualizationConfined ==
    /\ [](pendingFrames > 0 => listeningState = "listening")
    /\ [](audioLevel \in 0..100)
    /\ [][(listeningState = "listening" /\ listeningState' # "listening")
          => audioLevel' = 0]_vars
    /\ [][\A ofRef \in BOOLEAN, average \in Averages :
             (AnimationFrame(ofRef, average) /\ listeningState # "listening")
             => pendingFrames' = pendingFrames - 1]_vars

\* --- C32
\* C32 (visualization starts on open): the turn of an onopen that sets
\* listening and wires the audio graph (the analyser is set) leaves the
\* level loop running: an animation frame is requested and
\* animationFrameRef holds the request.
C32_VisualizationStartsOnOpen ==
    [][\A a \in Attempts, average \in Averages :
           (/\ SessionOpen(a, average)
            /\ listeningState' = "listening"
            /\ analyserRef' # 0)
           => /\ pendingFrames' > 0
              /\ animationFrameRef' = "live"]_vars

\* --- C33
\* C33 (listening implies live resources): in every reachable state in which
\* listeningState is listening, mediaStreamRef holds a stream whose tracks
\* are not stopped, audioContextRef holds a context that is not closed or
\* closing, analyserRef, scriptProcessorRef and sessionPromiseRef are set.
C33_ListeningImpliesLiveResources ==
    listeningState = "listening"
    => /\ mediaStreamRef # 0
       /\ streams[mediaStreamRef] = "live"
       /\ audioContextRef # 0
       /\ contexts[audioContextRef] \in {"running", "suspended"}
       /\ analyserRef # 0
       /\ scriptProcessorRef # 0
       /\ sessionPromiseRef # 0

\* --- C34
\* the trimmed transcript t ends with none of the command phrases
NoCommand(t) ==
    \A pre \in TextsBefore(t) :
        ~Spoken(t, pre, SendPhrases \cup StopPhrases \cup ClearPhrases)

\* the command patterns that match t
Matching(t) ==
    {phrases \in {SendPhrases, StopPhrases, ClearPhrases} : RegexTest(t, phrases)}

\* C34 (no-command turn leaves everything unchanged): at a turn-complete
\* message whose accumulated transcript (with the text of the message, if it
\* has any) ends with none of the send, stop and clear phrases, the
\* transcript buffer is kept (the text of the message appended), the live
\* input shows it, onSend is not called, no command runs, and the capture
\* state, the handles and the resources are unchanged; and the transcript
\* of every message matches at most one of the three command patterns.
C34_NoCommandTurn ==
    /\ [][\A a \in Attempts, m \in DictationMessages :
             (/\ m.turnComplete
              /\ NoCommand(Trim(After(m)))
              /\ OnMessage(a, m.hasText, m.text, m.turnComplete, m.maxLen))
             => /\ currentTranscriptionRef' = After(m)
                /\ inputValue' = IF m.hasText THEN After(m) ELSE inputValue
                /\ onSendCalls' = <<>>
                /\ voiceCommand' = "no command"
                /\ CaptureUnchanged]_vars
    /\ [](\A m \in DictationMessages :
             Cardinality(Matching(Trim(After(m)))) <= 1)

\* C34 witness: a turn-complete message without a command has arrived after
\* "a": the component still listens, the buffer and the live input hold
\* the text, nothing was sent.
C34_Witness ==
    /\ voiceCommand = "no command"
    /\ listeningState = "listening"
    /\ currentTranscriptionRef # <<>>
    /\ inputValue = currentTranscriptionRef
    /\ onSendCalls = <<>>
    /\ sessionPromiseRef # 0
    /\ mediaStreamRef # 0

\* --- C35
\* C35 (transcript buffer scoped to one session): while listeningState is
\* idle after a full stop (no capture attempt has begun since), the
\* transcript buffer is empty, and a server message of the old session
\* changes neither the buffer nor the live input.
C35_BufferScopedToSession ==
    /\ [](listeningState = "idle" => currentTranscriptionRef = <<>>)
    /\ [][\A a \in Attempts, m \in DictationMessages :
             (/\ listeningState = "idle"
              /\ OnMessage(a, m.hasText, m.text, m.turnComplete, m.maxLen))
             => /\ currentTranscriptionRef' = currentTranscriptionRef
                /\ inputValue' = inputValue]_vars

\* --- C36
\* C36 (single capture attempt in flight): at most one invocation of
\* startListening is past its guards and not yet finished (in its settle
\* wait, waiting for getUserMedia or for resume()); at most one stream is
\* live and at most one remote session is connecting or open; and a turn
\* that stores a new stream, session promise or connect-timeout handle does
\* not overwrite one that is still held.
C36_SingleAttemptInFlight ==
    /\ [](Cardinality({a \in Attempts :
                          attempts[a].pc \in {"settle", "getUserMedia", "resume"}}) <= 1)
    /\ [](Cardinality({a \in Attempts : streams[a] = "live"}) <= 1)
    /\ [](Cardinality({a \in Attempts :
                          sessions[a] \in {"connecting", "open"}}) <= 1)
    /\ [][/\ (mediaStreamRef # 0 /\ mediaStreamRef' # 0)
              => mediaStreamRef' = mediaStreamRef
          /\ (sessionPromiseRef # 0 /\ sessionPromiseRef' # 0)
              => sessionPromiseRef' = sessionPromiseRef
          /\ (connectionTimeoutRef # 0 /\ connectionTimeoutRef' # 0)
              => connectionTimeoutRef' = connectionTimeoutRef]_vars

\* --- C37
\* nothing is pending: no invocation of startListening or stopListening is
\* suspended, no timer is set, no connection or close is under way, no
\* animation frame is requested
AtRest ==
    /\ \A a \in Attempts : attempts[a].pc \notin {"settle", "getUserMedia", "resume"}
    /\ \A a \in Attempts : ~connTimers[a]
    /\ \A a \in Attempts : sessions[a] \notin {"connecting", "closing", "failing"}
    /\ \A a \in Attempts : contexts[a] # "closing"
    /\ stops = {}
    /\ stopTimers = 0
    /\ pendingFrames = 0
    /\ \A r \in Recognizers : ~recognizers[r].timer

\* C37 (no leaked resources at rest): in every reachable state in which
\* listeningState is idle and nothing is pending, mediaStreamRef,
\* audioContextRef, analyserRef, scriptProcessorRef, sessionPromiseRef,
\* connectionTimeoutRef and animationFrameRef are null, no stream is live,
\* no AudioContext is running and no session is open.
C37_NoLeakAtRest ==
    (listeningState = "idle" /\ AtRest)
    => /\ mediaStreamRef = 0
       /\ audioContextRef = 0
       /\ analyserRef = 0
       /\ scriptProcessorRef = 0
       /\ sessionPromiseRef = 0
       /\ connectionTimeoutRef = 0
       /\ animationFrameRef = "null"
       /\ \A a \in Attempts : streams[a] # "live"
       /\ \A a \in Attempts : contexts[a] \notin {"running", "suspended"}
       /\ \A a \in Attempts : sessions[a] # "open"

\* --- C38
\* C38 (voice-finalized text only while listening): a server message that
\* arrives while listeningState is not listening (a full stop has begun)
\* passes nothing to onSend and starts no further stopListening invocation
\* (no close() is called, no invocation is suspended in addition).
C38_SendOnlyWhileListening ==
    [][\A a \in Attempts, m \in DictationMessages :
           (/\ listeningState # "listening"
            /\ OnMessage(a, m.hasText, m.text, m.turnComplete, m.maxLen))
           => /\ onSendCalls' = <<>>
              /\ closeCalls' = <<>>
              /\ stops' = stops]_vars

\* --- C39
\* C39 (clean unmount): once the component is unmounted, no wake-word
\* recognizer is registered and none is started (also after the 500 ms timer
\* of the unmount-time stopListening has fired); and when nothing is pending
\* any more, no stream is live, no AudioContext is running, no session is
\* open and every handle is null.
C39_CleanUnmount ==
    ~mounted
    => /\ speechRecognitionRef = 0
       /\ \A r \in Recognizers : recognizers[r].status # "running"
       /\ AtRest
          => /\ mediaStreamRef = 0
             /\ audioContextRef = 0
             /\ sessionPromiseRef = 0
             /\ connectionTimeoutRef = 0
             /\ \A a \in Attempts : streams[a] # "live"
             /\ \A a \in Attempts : contexts[a] \notin {"running", "suspended"}
             /\ \A a \in Attempts : sessions[a] # "open"

\* --- C40
\* C40 (bounded API retry): an invocation with retries = r calls the model
\* endpoint at most r times; once a call has succeeded it returns and makes
\* no further call; the wait after the i-th failure (i from 0) is
\* delay * 2^i and there is one wait between two calls; after the r-th
\* failure in a row it throws one Error with a user-facing message without
\* another wait; and every invocation returns or throws in the end.
C40_BoundedRetry ==
    /\ [](retry.calls <= retry.retries)
    /\ [](\A k \in 1..Len(retry.waits) :
             retry.waits[k] = retry.delay * Pow2(k - 1))
    /\ [](retry.pc = "call" => Len(retry.waits) = retry.calls - 1)
    /\ [](retry.pc = "returned" => retry.errors = <<>>)
    /\ []((retry.pc = "thrown" /\ retry.retries > 0)
          => /\ retry.calls = retry.retries
             /\ Len(retry.waits) = retry.retries - 1
             /\ Len(retry.errors) = 1
             /\ retry.errors[1] \in UserMessages)
    /\ [][retry.pc \in {"returned", "thrown"} => retry' = retry]_vars
    /\ <>(retry.pc \in {"returned", "thrown"})

\* C40 witness: with retries = 3 and delay = 1000 three calls failed, the
\* last with a quota error: the waits were 1000 and 2000 ms and the quota
\* message was thrown.
C40_Witness ==
    /\ retry.pc = "thrown"
    /\ retry.retries = 3
    /\ retry.calls = 3
    /\ retry.waits = <<1000, 2000>>
    /\ retry.errors = <<MsgQuota>>

====
